---- MODULE Spec2Model ----
(***************************************************************************)
(* Narrow phase of avian (src/collision/narrow_phase.rs): the collision    *)
(* registry (Collisions), its per-step lifecycle (reset, collection,       *)
(* post-processing, constraint generation, eviction), contact matching for *)
(* warm starting and the wake-up requests of constraint generation.        *)
(*                                                                         *)
(* Entities are numbers.  Collider entities are 1..n; a collider whose     *)
(* rigid body is a separate (parent) entity has the body entity n + c.     *)
(* The shape oracle (AnyCollider's                                         *)
(* contact_manifolds_with_context), the modify-contacts hook, the broad    *)
(* phase and the solver are the environment: what they produce in a step   *)
(* is chosen between steps and held in state, and the systems of the       *)
(* narrow phase are deterministic functions of that state.                 *)
(*                                                                         *)
(* Lengths are integers in units of a tenth of a metre, so that the        *)
(* matching threshold 0.1 * length_unit is the integer length_unit.        *)
(***************************************************************************)
EXTENDS Integers, Sequences, FiniteSets, TLC

\* ------------------------------------------------------------------ bounds

\* Number of collider entities in the world.
NumColliders == 2

\* Longest candidate list the broad phase hands over in one step.
MaxPairs == 2

\* Largest length unit (PhysicsLengthUnit) a run is configured with.
MaxLengthUnit == 2

\* Largest contact position the oracle reports (tenths of a metre).
MaxPos == 2

\* Largest speed of a body, in lengths per unit of time.
MaxSpeed == 2

\* Longest time step.
MaxDeltaSecs == 2

\* Largest number of NarrowPhasePlugin instances added to an app.
MaxInstances == 2

\* Longest constraint list a run is followed to.
MaxConstraints == 6

\* ------------------------------------------------------- program constants

\* contacts.manifolds.len() <= 4: above this no contact matching is done.
MatchManifoldLimit == 4

\* Scalar::MAX, the default of NarrowPhaseConfig::default_speculative_margin:
\* a number above every length of the model.  A product that overflows to
\* infinity is a number above it.
ScalarMax == 1000

\* The default of NarrowPhaseConfig::contact_tolerance (0.005), as the
\* smallest positive length of the model.
DefaultContactTolerance == 1

\* ------------------------------------------------------------------- state

VARIABLES
    instances,              \* the NarrowPhasePlugin instances, in the order they are built
    backend,                \* collider entity -> the instance of its collider type
    colliders,              \* collider entity -> its components
    margins,                \* collider entity -> margin components and body velocity
    config,                 \* NarrowPhaseConfig: the two margins
    config_changed,         \* NarrowPhaseConfig changed since collection last ran
    delta_secs,             \* the time step
    cached,                 \* the Locals of collect_collisions: the scaled margins
    oracle_calls,           \* the calls of the oracle this step, with their max_distance
    hook_calls,             \* the pairs modify_contacts was called with this step
    runs,                   \* the systems that have run this step, in order
    par,                    \* the chunks of a parallel collection under way
    alive,                  \* the entities that exist
    asleep,                 \* the entities that have the Sleeping component
    match_contacts,         \* NarrowPhaseConfig::match_contacts
    length_unit,            \* PhysicsLengthUnit
    parallel,               \* whether the build has the "parallel" feature
    collisions,             \* the registry: key (entity, entity) -> Contacts
    broad_collision_pairs,  \* BroadCollisionPairs of this step
    geometry,               \* canonical pair -> what the oracle returns this step
    hook,                   \* canonical pair -> what modify_contacts does this step
    constraints,            \* ContactConstraints
    commands,               \* deferred WakeUpBody commands, in queueing order
    pc                      \* the stage of the step that runs next

vars == << instances, backend, colliders, margins, config, config_changed,
           delta_secs, cached, oracle_calls, hook_calls, runs, par, alive, asleep,
           match_contacts, length_unit, parallel, collisions,
           broad_collision_pairs, geometry, hook, constraints, commands, pc >>

\* What no system of a step changes.
world == << instances, backend, colliders, margins, config, delta_secs,
            match_contacts, length_unit, parallel >>

\* What only collection writes.
collected == << config_changed, cached, oracle_calls, hook_calls, par >>

\* ---------------------------------------------------------------- entities

\* The collider entities of the world.
Colliders == DOMAIN colliders

\* The entity of the separate rigid body a child collider c is attached to.
ParentOf(c) == Cardinality(Colliders) + c

\* Option<T>: None is the empty sequence, Some(x) the sequence << x >>.
None == << >>

Some(x) == << x >>

\* Option::unwrap_or
UnwrapOr(option, default) == IF option = None THEN default ELSE option[1]

\* Option::or
OptionOr(option, other) == IF option = None THEN other ELSE option

\* The component sets a collider entity is spawned with.  attach says where
\* its rigid body is: on the collider's own entity ("self"), on a separate
\* parent entity ("parent"), or nowhere ("none").  sensor is the Sensor
\* component on the collider entity, body_sensor the one on the body entity;
\* they are the same component when the body is the collider's own entity.
Archetypes ==
    { [attach |-> "self",   rb |-> "Dynamic",   sensor |-> FALSE, body_sensor |-> FALSE],
      [attach |-> "self",   rb |-> "Kinematic", sensor |-> FALSE, body_sensor |-> FALSE],
      [attach |-> "parent", rb |-> "Static",    sensor |-> FALSE, body_sensor |-> FALSE],
      [attach |-> "self",   rb |-> "Dynamic",   sensor |-> TRUE,  body_sensor |-> TRUE],
      [attach |-> "parent", rb |-> "Dynamic",   sensor |-> FALSE, body_sensor |-> TRUE],
      [attach |-> "none",   rb |-> "None",      sensor |-> FALSE, body_sensor |-> FALSE] }

\* collider.rigid_body (Option<&ColliderOf>) mapped to the body entity.
RigidBodyOf(c) ==
    IF colliders[c].attach = "self" THEN Some(c)
    ELSE IF colliders[c].attach = "parent" THEN Some(ParentOf(c))
    ELSE None

\* The body entities of the world.
BodyEntities == { RigidBodyOf(c)[1] : c \in { d \in Colliders : RigidBodyOf(d) # None } }

\* The collider a body entity belongs to.
ColliderOfBody(b) == CHOOSE c \in Colliders : RigidBodyOf(c) = Some(b)

\* collider_query.get_many([entity1, entity2]) is Ok.
CollidersResolve(entity1, entity2) == entity1 \in alive /\ entity2 \in alive

\* Mutant: the query result is not looked at.
CollidersResolveFor_Always(C, entity1, entity2) == TRUE

\* The same for the collider_query of NarrowPhase<C>, which holds the
\* colliders of collider type C only.
CollidersResolveFor(C, entity1, entity2) ==
    /\ CollidersResolve(entity1, entity2)
    /\ backend[entity1] = C
    /\ backend[entity2] = C

\* collider.rigid_body.and_then(|..| body_query.get(rigid_body).ok()) is Some.
BodyResolves(c) == RigidBodyOf(c) # None /\ RigidBodyOf(c)[1] \in alive

\* The fields of the body bundle of collider c that the narrow phase reads.
BodyOf(c) ==
    [ entity      |-> RigidBodyOf(c)[1],
      rb          |-> colliders[c].rb,
      is_sleeping |-> RigidBodyOf(c)[1] \in asleep,
      is_sensor   |-> colliders[c].body_sensor ]

\* ColliderQuery::is_rb: the collider belongs to a rigid body.
ColliderIsRb(c) == colliders[c].attach # "none"

\* ---------------------------------------------------------------- registry

\* The canonical key of an unordered pair.
Canon(a, b) == IF a < b THEN << a, b >> ELSE << b, a >>

\* Collisions::insert_collision_pair: one entry per canonical pair key.
InsertCollisionPairKey(contacts) == Canon(contacts.entity1, contacts.entity2)

InsertCollisionPair(reg, contacts) ==
    LET key == InsertCollisionPairKey(contacts)
    IN  [ k \in (DOMAIN reg) \cup { key } |-> IF k = key THEN contacts ELSE reg[k] ]

\* Collisions::retain: the registry reg cut down to the keys in kept, the
\* keys of the entries the predicate holds for.
Retain(reg, kept) == [ k \in kept |-> reg[k] ]

EmptyRegistry == [ k \in {} |-> None ]

\* The keys of a registry in iteration order.
RECURSIVE KeysInOrder(_)
KeysInOrder(ks) ==
    IF ks = {} THEN << >>
    ELSE LET m == CHOOSE k \in ks :
                     \A j \in ks : k[1] < j[1] \/ (k[1] = j[1] /\ k[2] <= j[2])
         IN  << m >> \o KeysInOrder(ks \ { m })

\* ------------------------------------------------------ oracle and the hook

\* A contact point as the oracle returns it: no accumulated impulse yet.
\* feature_id 0 is PackedFeatureId::UNKNOWN.
NewPoint(fid, pos) ==
    [ feature_id |-> fid, pos |-> pos, normal_impulse |-> 0, tangent_impulse |-> 0 ]

\* What the oracle returns for a shape description [count, fid, pos]: count
\* manifolds of one point each.
OracleManifolds(shape) ==
    [ i \in 1 .. shape.count |-> [ points |-> << NewPoint(shape.fid, shape.pos) >> ] ]

NoContact == [ count |-> 0, fid |-> 0, pos |-> 0 ]

\* collider1.shape.contact_manifolds_with_context(collider2.shape, ..)
ContactManifolds(entity1, entity2) == OracleManifolds(geometry[Canon(entity1, entity2)])

\* active_hooks.contains(ActiveCollisionHooks::MODIFY_CONTACTS)
ModifyContactsActive(entity1, entity2) == hook[Canon(entity1, entity2)] # "inactive"

\* hooks.modify_contacts(&mut contacts, commands): the verdict and the
\* contacts as the hook leaves them.
ModifyContacts(contacts) ==
    LET h == hook[Canon(contacts.entity1, contacts.entity2)]
    IN  [ keep     |-> h # "reject",
          contacts |->
              IF h = "clear" THEN [ contacts EXCEPT !.manifolds = << >> ]
              ELSE IF h = "truncate"
                   THEN [ contacts EXCEPT !.manifolds = SubSeq(contacts.manifolds, 1, 1) ]
              ELSE IF h = "drain"
                   THEN [ contacts EXCEPT !.manifolds[1].points = << >> ]
                   ELSE contacts ]

\* ------------------------------------------------------- contact matching

Abs(x) == IF x < 0 THEN -x ELSE x

Min(S) == CHOOSE x \in S : \A y \in S : x <= y

\* let distance_threshold = 0.1 * self.length_unit.0, in tenths of a metre.
DistanceThreshold == length_unit

\* The previous point a new point is matched with, if any: one with the same
\* known feature id, else the nearest one closer than the threshold.
MatchedPoint(point, previous_points, distance_threshold) ==
    LET by_feature == { i \in DOMAIN previous_points :
                          /\ point.feature_id # 0
                          /\ previous_points[i].feature_id = point.feature_id }
        near       == { i \in DOMAIN previous_points :
                          Abs(point.pos - previous_points[i].pos) < distance_threshold }
        nearest    == { i \in near : \A j \in near :
                          Abs(point.pos - previous_points[i].pos)
                              <= Abs(point.pos - previous_points[j].pos) }
    IN  IF by_feature # {} THEN Some(previous_points[Min(by_feature)])
        ELSE IF near # {} THEN Some(previous_points[Min(nearest)])
        ELSE None

\* The impulses a matched point takes over.
CopyImpulses(point, previous_point) ==
    [ point EXCEPT !.normal_impulse  = previous_point.normal_impulse,
                   !.tangent_impulse = previous_point.tangent_impulse ]

\* ContactManifold::match_contacts(&previous_manifold.points, distance_threshold)
MatchContacts(manifold, previous_points, distance_threshold) ==
    [ manifold EXCEPT !.points =
        [ i \in DOMAIN manifold.points |->
            LET m == MatchedPoint(manifold.points[i], previous_points, distance_threshold)
            IN  IF m = None THEN manifold.points[i]
                ELSE CopyImpulses(manifold.points[i], m[1]) ] ]

\* for previous_manifold in previous_contacts.manifolds.iter() { .. }
RECURSIVE MatchAgainstAll(_, _, _, _)
MatchAgainstAll(manifold, previous_manifolds, i, distance_threshold) ==
    IF i > Len(previous_manifolds) THEN manifold
    ELSE MatchAgainstAll(
             MatchContacts(manifold, previous_manifolds[i].points, distance_threshold),
             previous_manifolds, i + 1, distance_threshold)

\* Mutant: the manifold limit is taken as exclusive.
ShouldMatch_Exclusive(contacts) ==
    Len(contacts.manifolds) < MatchManifoldLimit /\ match_contacts

\* Mutant: the manifold limit is forgotten.
ShouldMatch_NoLimit(contacts) == match_contacts

\* The guard of the matching block.
ShouldMatch(contacts) ==
    Len(contacts.manifolds) <= MatchManifoldLimit /\ match_contacts

\* The matching block of compute_contact_pair.
MatchPrevious(contacts, previous_contacts) ==
    IF ShouldMatch(contacts) /\ previous_contacts # None
    THEN [ contacts EXCEPT !.manifolds =
             [ i \in DOMAIN contacts.manifolds |->
                 MatchAgainstAll(contacts.manifolds[i], previous_contacts[1].manifolds,
                                 1, DistanceThreshold) ] ]
    ELSE contacts

\* ----------------------------------------------------------------- margins

\* The margin components of a collider and its body, and the body's linear
\* velocity: here none, and a body at rest.
NoMargins ==
    [ collision_margin       |-> None,
      rb_collision_margin    |-> None,
      speculative_margin     |-> None,
      rb_speculative_margin  |-> None,
      lin_vel                |-> 0 ]

\* Lengths, velocities and the time step are integers; the arithmetic of
\* handle_entity_pair is exact on them, so rounding is not modelled.

Max(a, b) == IF a > b THEN a ELSE b

\* The margins update caches when the configuration has changed.
ScaledMargins ==
    [ default_speculative_margin |-> length_unit * config.default_speculative_margin,
      contact_tolerance          |-> length_unit * config.contact_tolerance ]

\* The Locals of collect_collisions::<C> once update has passed its
\* if self.config.is_changed() { .. }.
RefreshedCache(C) == IF config_changed[C] THEN ScaledMargins ELSE cached[C]

\* The body bundle's linear velocity, or the default when there is no body.
LinVel(c) == IF BodyResolves(c) THEN margins[c].lin_vel ELSE 0

\* The body bundle's CollisionMargin.  A body that is the collider's own
\* entity has the collider's component.
RbCollisionMargin(c) ==
    IF ~BodyResolves(c) THEN None
    ELSE IF colliders[c].attach = "self" THEN margins[c].collision_margin
    ELSE margins[c].rb_collision_margin

\* The body bundle's SpeculativeMargin.
RbSpeculativeMargin(c) ==
    IF ~BodyResolves(c) THEN None
    ELSE IF colliders[c].attach = "self" THEN margins[c].speculative_margin
    ELSE margins[c].rb_speculative_margin

\* collider.collision_margin.or(rb_collision_margin).map_or(0.0, |m| m.0)
CollisionMargin(c) ==
    UnwrapOr(OptionOr(margins[c].collision_margin, RbCollisionMargin(c)), 0)

\* let collision_margin_sum = collision_margin1 + collision_margin2
CollisionMarginSum(collider1, collider2) ==
    CollisionMargin(collider1) + CollisionMargin(collider2)

\* collider.speculative_margin.map_or(rb_speculative_margin.map(..), ..)
SpeculativeMargin(c) == OptionOr(margins[c].speculative_margin, RbSpeculativeMargin(c))

\* Mutant: a margin of zero is taken for no bound at all.
ClampedDisplacement_ZeroUnbounded(lin_vel, speculative_margin) ==
    IF /\ speculative_margin > 0
       /\ speculative_margin < ScalarMax
       /\ Abs(delta_secs * lin_vel) > speculative_margin
    THEN IF lin_vel < 0 THEN 0 - speculative_margin ELSE speculative_margin
    ELSE delta_secs * lin_vel

\* Mutant: a side's velocity is never clamped.
ClampedDisplacement_Unclamped(lin_vel, speculative_margin) == delta_secs * lin_vel

\* delta_secs * lin_vel once lin_vel has been through
\*   if speculative_margin < Scalar::MAX {
\*       lin_vel = lin_vel.clamp_length_max(speculative_margin * inv_delta_secs) }
\* The velocity is one-dimensional.
ClampedDisplacement(lin_vel, speculative_margin) ==
    IF speculative_margin < ScalarMax /\ Abs(delta_secs * lin_vel) > speculative_margin
    THEN IF lin_vel < 0 THEN 0 - speculative_margin ELSE speculative_margin
    ELSE delta_secs * lin_vel

\* let effective_speculative_margin = { .. }
EffectiveSpeculativeMargin(cache, collider1, collider2) ==
    LET speculative_margin1 ==
            UnwrapOr(SpeculativeMargin(collider1), cache.default_speculative_margin)
        speculative_margin2 ==
            UnwrapOr(SpeculativeMargin(collider2), cache.default_speculative_margin)
    IN  Abs(ClampedDisplacement(LinVel(collider1), speculative_margin1)
            - ClampedDisplacement(LinVel(collider2), speculative_margin2))

\* Mutant: the collision margins are left out of the distance.
MaxContactDistance_NoCollisionMargin(cache, collider1, collider2) ==
    Max(EffectiveSpeculativeMargin(cache, collider1, collider2), cache.contact_tolerance)

\* let max_contact_distance =
\*     effective_speculative_margin.max(*self.contact_tolerance) + collision_margin_sum
MaxContactDistance(cache, collider1, collider2) ==
    Max(EffectiveSpeculativeMargin(cache, collider1, collider2), cache.contact_tolerance)
    + CollisionMarginSum(collider1, collider2)

\* -------------------------------------------------------------- collection

\* Mutant: the previous contacts are looked up under the pair as it is given.
PreviousContactsKey_AsGiven(collider1, collider2) == << collider1, collider2 >>

\* The key under which compute_contact_pair looks for the previous contacts.
PreviousContactsKey(collider1, collider2) ==
    IF collider1 < collider2 THEN << collider1, collider2 >>
    ELSE << collider2, collider1 >>

\* let previous_contacts = self.collisions.get_internal().get(..)
PreviousContacts(reg, collider1, collider2) ==
    IF PreviousContactsKey(collider1, collider2) \in DOMAIN reg
    THEN Some(reg[PreviousContactsKey(collider1, collider2)])
    ELSE None

\* The is_sensor flag of a new Contacts.
IsSensorPair(collider1, collider2) ==
    \/ colliders[collider1].sensor
    \/ colliders[collider2].sensor
    \/ ~ColliderIsRb(collider1)
    \/ ~ColliderIsRb(collider2)

\* let mut contacts = Contacts { .. }
NewContacts(collider1, collider2, manifolds, previous_contacts) ==
    [ entity1               |-> collider1,
      entity2               |-> collider2,
      body_entity1          |-> RigidBodyOf(collider1),
      body_entity2          |-> RigidBodyOf(collider2),
      during_current_frame  |-> TRUE,
      during_previous_frame |->
          previous_contacts # None /\ previous_contacts[1].during_previous_frame,
      manifolds             |-> manifolds,
      is_sensor             |-> IsSensorPair(collider1, collider2) ]

\* Mutant: the manifold list is not looked at again after the hook.
ComputeContactPair_NoCheckAfterHook(reg, entity1, entity2) ==
    LET manifolds == ContactManifolds(entity1, entity2)
        previous_contacts == PreviousContacts(reg, entity1, entity2)
        contacts == NewContacts(entity1, entity2, manifolds, previous_contacts)
        hooked   == IF ModifyContactsActive(entity1, entity2)
                    THEN ModifyContacts(contacts)
                    ELSE [ keep |-> TRUE, contacts |-> contacts ]
    IN  IF manifolds = << >> THEN None
        ELSE IF ~hooked.keep THEN None
        ELSE Some(MatchPrevious(hooked.contacts, previous_contacts))

\* NarrowPhase::compute_contact_pair: Option<Contacts>.
ComputeContactPair(reg, entity1, entity2) ==
    LET manifolds == ContactManifolds(entity1, entity2)
        previous_contacts == PreviousContacts(reg, entity1, entity2)
        contacts == NewContacts(entity1, entity2, manifolds, previous_contacts)
        hooked   == IF ModifyContactsActive(entity1, entity2)
                    THEN ModifyContacts(contacts)
                    ELSE [ keep |-> TRUE, contacts |-> contacts ]
    IN  IF manifolds = << >> THEN None
        ELSE IF ~hooked.keep THEN None
        ELSE IF hooked.contacts.manifolds = << >> THEN None
        ELSE Some(MatchPrevious(hooked.contacts, previous_contacts))

\* NarrowPhase::handle_entity_pair: Option<Contacts>.  The maximum contact
\* distance it resolves is an argument of the oracle only.
HandleEntityPair(C, reg, entity1, entity2) ==
    IF ~CollidersResolveFor(C, entity1, entity2) THEN None
    ELSE ComputeContactPair(reg, entity1, entity2)

\* The calls of the oracle that handling the pairs makes, in order: the
\* oracle is the first thing compute_contact_pair does.
RECURSIVE OracleCalls(_, _, _, _)
OracleCalls(C, cache, pairs, i) ==
    IF i > Len(pairs) THEN << >>
    ELSE (IF CollidersResolveFor(C, pairs[i][1], pairs[i][2])
          THEN << [ entity1      |-> pairs[i][1],
                    entity2      |-> pairs[i][2],
                    max_distance |-> MaxContactDistance(cache, pairs[i][1], pairs[i][2]) ] >>
          ELSE << >>)
         \o OracleCalls(C, cache, pairs, i + 1)

\* Mutant: the hook is called before the manifolds are looked at.
ModifyContactsCalled_BeforeEmptyCheck(C, entity1, entity2) ==
    /\ CollidersResolveFor(C, entity1, entity2)
    /\ ModifyContactsActive(entity1, entity2)

\* Whether handling a pair calls hooks.modify_contacts: the pair is past
\* if manifolds.is_empty() { return None; } and has the hook enabled.
ModifyContactsCalled(C, entity1, entity2) ==
    /\ CollidersResolveFor(C, entity1, entity2)
    /\ ContactManifolds(entity1, entity2) # << >>
    /\ ModifyContactsActive(entity1, entity2)

\* The calls of hooks.modify_contacts that handling the pairs makes.
RECURSIVE HookCalls(_, _, _)
HookCalls(C, pairs, i) ==
    IF i > Len(pairs) THEN << >>
    ELSE (IF ModifyContactsCalled(C, pairs[i][1], pairs[i][2])
          THEN << pairs[i] >>
          ELSE << >>)
         \o HookCalls(C, pairs, i + 1)

\* NarrowPhase::update without the "parallel" feature: the registry is
\* written after each pair.
RECURSIVE UpdateSequential(_, _, _, _)
UpdateSequential(C, reg, pairs, i) ==
    IF i > Len(pairs) THEN reg
    ELSE LET contacts == HandleEntityPair(C, reg, pairs[i][1], pairs[i][2])
         IN  UpdateSequential(C,
                 IF contacts = None THEN reg ELSE InsertCollisionPair(reg, contacts[1]),
                 pairs, i + 1)

\* Collisions::extend: the new collisions are inserted in order.
RECURSIVE Extend(_, _, _)
Extend(reg, new_collisions, i) ==
    IF i > Len(new_collisions) THEN reg
    ELSE Extend(InsertCollisionPair(reg, new_collisions[i]), new_collisions, i + 1)

\* The new_collisions of all chunks, in chunk order: every pair is handled
\* against the registry as it is when collection starts.
RECURSIVE NewCollisions(_, _, _, _)
NewCollisions(C, reg, pairs, i) ==
    IF i > Len(pairs) THEN << >>
    ELSE HandleEntityPair(C, reg, pairs[i][1], pairs[i][2])
         \o NewCollisions(C, reg, pairs, i + 1)

\* NarrowPhase::update with the "parallel" feature.
UpdateParallel(C, reg, pairs) == Extend(reg, NewCollisions(C, reg, pairs, 1), 1)

\* No parallel collection is under way.
NoChunks ==
    [ chunks |-> << >>, next |-> << >>, new_collisions |-> << >>, merged |-> 0,
      start |-> EmptyRegistry ]

\* The ways par_splat_map can split a list into chunks: consecutive slices.
RECURSIVE Chunkings(_)
Chunkings(pairs) ==
    IF pairs = << >> THEN { << >> }
    ELSE UNION { { << SubSeq(pairs, 1, n) >> \o rest :
                     rest \in Chunkings(SubSeq(pairs, n + 1, Len(pairs))) } :
                 n \in 1 .. Len(pairs) }

\* NarrowPhase::update.
Update(C, reg, pairs) ==
    IF parallel THEN UpdateParallel(C, reg, pairs) ELSE UpdateSequential(C, reg, pairs, 1)

\* ------------------------------------------------------- lifecycle passes

\* The RigidBody component of an entity, as Query<(Option<&RigidBody>, ..)>
\* of reset_collision_states sees it.
RigidBodyComponent(e) ==
    IF e \in BodyEntities THEN Some(colliders[ColliderOfBody(e)].rb) ELSE None

\* let active1 = !rb1.is_some_and(|rb| rb.is_static()) && !sleeping1
ActiveEntity(e) ==
    /\ ~(RigidBodyComponent(e) # None /\ RigidBodyComponent(e)[1] = "Static")
    /\ e \notin asleep

\* Mutant: the reset clears during_current_frame of every entry.
ResetCurrentFrame_AlwaysCleared(contacts) == FALSE

\* The during_current_frame the reset gives an entry.
ResetCurrentFrame(contacts) ==
    LET e1 == UnwrapOr(contacts.body_entity1, contacts.entity1)
        e2 == UnwrapOr(contacts.body_entity2, contacts.entity2)
    IN  IF e1 \in alive /\ e2 \in alive
        THEN IF ActiveEntity(e1) \/ ActiveEntity(e2) THEN FALSE ELSE TRUE
        ELSE FALSE

\* Mutant: the reset leaves during_previous_frame as it finds it.
ResetContacts_CurrentOnly(contacts) ==
    [ contacts EXCEPT !.during_current_frame = ResetCurrentFrame(contacts) ]

\* The body of the loop of reset_collision_states.
ResetContacts(contacts) ==
    [ contacts EXCEPT !.during_previous_frame = TRUE,
                      !.during_current_frame  = ResetCurrentFrame(contacts) ]

\* Mutant: an entry is kept while either of its flags is set.
RetainPredicate_EitherFrame(contacts) ==
    contacts.during_current_frame \/ contacts.during_previous_frame

\* The predicate of collisions.retain in remove_ended_collisions.
RetainPredicate(contacts) == contacts.during_current_frame

\* --------------------------------------------------- constraint generation

IsDynamic(body) == body.rb = "Dynamic"

IsStatic(body) == body.rb = "Static"

\* let inactive1 = body1.rb.is_static() || body1.is_sleeping
Inactive(body) == IsStatic(body) \/ body.is_sleeping

\* Mutant: the sleeping half of the inactivity test is forgotten.
NoCollisionResponse_OnlyStatic(body1, body2, collider1, collider2) ==
    \/ (IsStatic(body1) /\ IsStatic(body2))
    \/ (colliders[collider1].sensor \/ body1.is_sensor)
    \/ (colliders[collider2].sensor \/ body2.is_sensor)

\* Mutant: the sensor test of the first side is repeated for the second.
NoCollisionResponse_FirstSensorTwice(body1, body2, collider1, collider2) ==
    \/ (Inactive(body1) /\ Inactive(body2))
    \/ (colliders[collider1].sensor \/ body1.is_sensor)
    \/ (colliders[collider1].sensor \/ body1.is_sensor)

\* No collision response if both bodies are static or sleeping or if either
\* of the colliders is a sensor collider.
NoCollisionResponse(body1, body2, collider1, collider2) ==
    \/ (Inactive(body1) /\ Inactive(body2))
    \/ (colliders[collider1].sensor \/ body1.is_sensor)
    \/ (colliders[collider2].sensor \/ body2.is_sensor)

\* Mutant: the command names the other body of the pair.
WakeUpCommands_OtherBody(body1, body2) ==
    IF body1.is_sleeping THEN << body2.entity >>
    ELSE IF body2.is_sleeping THEN << body1.entity >>
    ELSE << >>

\* When an active body collides with a sleeping body, wake up the sleeping
\* body: the WakeUpBody commands queued for one pair.
WakeUpCommands(body1, body2) ==
    IF body1.is_sleeping THEN << body1.entity >>
    ELSE IF body2.is_sleeping THEN << body2.entity >>
    ELSE << >>

\* The Locals of the NarrowPhase parameter of the generate_constraints system.
\* A Local belongs to one system and starts at its default, 0.0; update, the
\* only code that assigns the two, runs on the parameter of collect_collisions.
GenerateConstraintsLocals ==
    [ default_speculative_margin |-> 0,
      contact_tolerance          |-> 0 ]

\* The points ContactConstraint::generate sets up for a manifold.
ConstraintPoints(contact_manifold) == contact_manifold.points

\* ContactConstraint::generate(i, contact_manifold, ..,
\*     *self.default_speculative_margin, ..)
Constraint(i, contacts) ==
    [ entity1            |-> contacts.entity1,
      entity2            |-> contacts.entity2,
      manifold_index     |-> i,
      speculative_margin |-> GenerateConstraintsLocals.default_speculative_margin,
      points             |-> ConstraintPoints(contacts.manifolds[i]) ]

\* Mutant: a constraint is pushed whether it has points or not.
ManifoldConstraints_KeepEmpty(contacts, i) ==
    [ j \in 1 .. (Len(contacts.manifolds) + 1 - i) |-> Constraint(i + j - 1, contacts) ]

\* Mutant: the loop over the manifolds ends at the first constraint that has
\* no points.
RECURSIVE ManifoldConstraints_StopAtEmpty(_, _)
ManifoldConstraints_StopAtEmpty(contacts, i) ==
    IF i > Len(contacts.manifolds) \/ Constraint(i, contacts).points = << >>
    THEN << >>
    ELSE << Constraint(i, contacts) >> \o ManifoldConstraints_StopAtEmpty(contacts, i + 1)

\* for (i, contact_manifold) in contacts.manifolds.iter().enumerate() { .. }
RECURSIVE ManifoldConstraints(_, _)
ManifoldConstraints(contacts, i) ==
    IF i > Len(contacts.manifolds) THEN << >>
    ELSE (IF Constraint(i, contacts).points # << >>
          THEN << Constraint(i, contacts) >> ELSE << >>)
         \o ManifoldConstraints(contacts, i + 1)

\* Mutant: a pair that has a constraint in the list already gets no other.
NarrowPhaseGenerateConstraints_OncePerPair(contacts, body1, body2, collider1, collider2) ==
    IF \/ NoCollisionResponse(body1, body2, collider1, collider2)
       \/ \E i \in DOMAIN constraints :
             /\ constraints[i].entity1 = contacts.entity1
             /\ constraints[i].entity2 = contacts.entity2
    THEN [ constraints |-> << >>, commands |-> << >> ]
    ELSE [ constraints |-> ManifoldConstraints(contacts, 1),
           commands    |-> WakeUpCommands(body1, body2) ]

\* NarrowPhase::generate_constraints for one Contacts: the constraints pushed
\* and the commands queued.
NarrowPhaseGenerateConstraints(contacts, body1, body2, collider1, collider2) ==
    IF NoCollisionResponse(body1, body2, collider1, collider2)
    THEN [ constraints |-> << >>, commands |-> << >> ]
    ELSE [ constraints |-> ManifoldConstraints(contacts, 1),
           commands    |-> WakeUpCommands(body1, body2) ]

\* Mutant: the test that a body is dynamic is left out.
ReachesGeneration_NoDynamicTest(C, contacts) ==
    /\ CollidersResolveFor(C, contacts.entity1, contacts.entity2)
    /\ BodyResolves(contacts.entity1)
    /\ BodyResolves(contacts.entity2)

\* Whether the system hands an entry to NarrowPhase::generate_constraints:
\* both colliders and both bodies resolve and a body is dynamic.
ReachesGeneration(C, contacts) ==
    /\ CollidersResolveFor(C, contacts.entity1, contacts.entity2)
    /\ BodyResolves(contacts.entity1)
    /\ BodyResolves(contacts.entity2)
    /\ (IsDynamic(BodyOf(contacts.entity1)) \/ IsDynamic(BodyOf(contacts.entity2)))

\* The body of the loop of the generate_constraints system for one entry.
GenerateForEntry(C, contacts) ==
    IF ReachesGeneration(C, contacts)
    THEN NarrowPhaseGenerateConstraints(contacts, BodyOf(contacts.entity1),
             BodyOf(contacts.entity2), contacts.entity1, contacts.entity2)
    ELSE [ constraints |-> << >>, commands |-> << >> ]

\* for contacts in narrow_phase.collisions.get_internal().values() { .. }
RECURSIVE GenerateAll(_, _, _, _)
GenerateAll(C, reg, keys, i) ==
    IF i > Len(keys) THEN [ constraints |-> << >>, commands |-> << >> ]
    ELSE LET one  == GenerateForEntry(C, reg[keys[i]])
             rest == GenerateAll(C, reg, keys, i + 1)
         IN  [ constraints |-> one.constraints \o rest.constraints,
               commands    |-> one.commands \o rest.commands ]

\* WakeUpBody(entity) applied: the Sleeping component is removed.
RECURSIVE ApplyCommands(_, _, _)
ApplyCommands(sleeping, queue, i) ==
    IF i > Len(queue) THEN sleeping
    ELSE ApplyCommands(sleeping \ { queue[i] }, queue, i + 1)

\* The solver's store of accumulated impulses into the points of an entry
\* it solved this step.
StoreImpulses(contacts, normal, tangent) ==
    [ contacts EXCEPT !.manifolds =
        [ i \in DOMAIN contacts.manifolds |->
            [ points |-> [ j \in DOMAIN contacts.manifolds[i].points |->
                [ contacts.manifolds[i].points[j] EXCEPT
                    !.normal_impulse = normal, !.tangent_impulse = tangent ] ] ] ] ]

\* ---------------------------------------------------------------- schedule

\* Mutant: every instance takes itself for the first.
IsFirstInstance_Always(app) == TRUE

\* The systems NarrowPhasePlugin::build of instance C adds to an app.
\* is_first_instance is whether NarrowPhaseInitialized is not there yet.
IsFirstInstance(app) == ~app.initialized

System(name, C) == [ system |-> name, instance |-> C ]

BuildSystems(is_first_instance, C) ==
    (IF is_first_instance
     THEN << System("reset", C), System("evict", C) >> ELSE << >>)
    \o << System("collect", C) >>
    \o (IF instances[C].generate_constraints
        THEN (IF is_first_instance THEN << System("clear", C) >> ELSE << >>)
             \o << System("generate", C) >>
        ELSE << >>)
    \o (IF is_first_instance THEN << System("post", C) >> ELSE << >>)

\* NarrowPhasePlugin::build
Build(app, C) ==
    [ initialized |-> TRUE,
      systems     |-> app.systems \o BuildSystems(IsFirstInstance(app), C) ]

\* The app once the plugins of instances 1 .. n are built, in that order.
RECURSIVE BuiltApp(_)
BuiltApp(n) ==
    IF n = 0 THEN [ initialized |-> FALSE, systems |-> << >> ]
    ELSE Build(BuiltApp(n - 1), n)

App == BuiltApp(Len(instances))

\* What the host runs in a step besides the systems of the narrow phase:
\* it applies the deferred commands, solves, lets the consumers read the
\* contacts, and ends the step.
HostSystems ==
    << System("apply", 0), System("solve", 0), System("report", 0), System("end", 0) >>

SystemNames ==
    { "reset", "collect", "post", "clear", "generate", "evict",
      "apply", "solve", "report", "end" }

\* Mutant: the NarrowPhaseSet sets are not chained; only the before and
\* after constraints of the systems order them.
SetOrder_SetsNotChained ==
    { << "reset", "collect" >>, << "post", "clear" >>, << "clear", "generate" >>,
      << "report", "evict" >> }

\* The ordering build configures: the chain of the NarrowPhaseSet sets, the
\* sets the systems are put in, and their before and after constraints.
\* << a, b >> says that a runs before b.
SetOrder ==
    { << "reset", "collect" >>,     \* after First, before CollectCollisions
      << "collect", "post" >>,      \* CollectCollisions, PostProcess chained
      << "post", "clear" >>,        \* after PostProcess
      << "clear", "generate" >>,    \* before GenerateConstraints
      << "post", "generate" >>,     \* PostProcess, GenerateConstraints chained
      << "report", "evict" >> }     \* after ReportContacts

\* The ordering of the host's step: the narrow phase, the deferred commands,
\* the solver, the contact reports; eviction is in the step.
HostOrder ==
    { << "generate", "apply" >>, << "apply", "solve" >>, << "solve", "report" >>,
      << "evict", "end" >> }

\* The transitive closure of the relation R through the nodes given.
RECURSIVE Closure(_, _)
Closure(R, nodes) ==
    IF nodes = {} THEN R
    ELSE LET n  == CHOOSE x \in nodes : TRUE
             R1 == Closure(R, nodes \ { n })
         IN  R1 \cup { << e[1], f[2] >> : e \in { x \in R1 : x[2] = n },
                                         f \in { y \in R1 : y[1] = n } }

Order == Closure(SetOrder \cup HostOrder, SystemNames)

\* The systems of the step with a name, in the order they were added.
StageSystems(name) ==
    SelectSeq(App.systems \o HostSystems, LAMBDA sys : sys.system = name)

\* The names of the systems of the step.
Scheduled ==
    LET systems == App.systems \o HostSystems
    IN  { systems[i].system : i \in DOMAIN systems }

\* The names of the systems in a log of runs.
Done(log) == { log[i].system : i \in DOMAIN log }

\* The stages the executor can run next when the stages in done have run:
\* those that have not run and have nothing scheduled before them left.
Ready(done) ==
    LET left == Scheduled \ done
    IN  { name \in left : \A before \in left : << before, name >> \notin Order }

\* The orders a sequence of systems can run in when nothing orders them.
Orders(systems) ==
    { [ i \in DOMAIN systems |-> systems[f[i]] ] :
        f \in { g \in [ DOMAIN systems -> DOMAIN systems ] :
                  \A i, j \in DOMAIN systems : i # j => g[i] # g[j] } }

\* The systems have run: they are in the log and the executor goes on with
\* a stage that is ready.
Ran(systems) ==
    /\ runs' = runs \o systems
    /\ pc' \in Ready(Done(runs \o systems))

\* ------------------------------------------------------------- environment

OrderedPairs == { p \in Colliders \X Colliders : p[1] # p[2] }

AllKeys == { p \in Colliders \X Colliders : p[1] < p[2] }

\* The candidate lists the broad phase can hand over.
PairLists == UNION { [ 1 .. n -> OrderedPairs ] : n \in 0 .. MaxPairs }

KeysOf(pairs) == { Canon(pairs[i][1], pairs[i][2]) : i \in DOMAIN pairs }

\* The entities that go when entity e is despawned: e and, when e is a
\* parent body, its child collider.
Despawned(e) == { e } \cup { c \in Colliders : RigidBodyOf(c) = Some(e) }

\* What can happen to the entities between two steps: nothing, a body falls
\* asleep (the Sleeping component is inserted), or an entity is despawned.
WorldChanges ==
    { << alive, asleep >> }
    \cup { << alive, asleep \cup { b } >> :
             b \in { e \in (BodyEntities \cap alive) \ asleep :
                       RigidBodyComponent(e)[1] # "Static" } }
    \cup { << alive \ Despawned(e), asleep \ Despawned(e) >> : e \in alive }

\* Between two steps of the despawn specification an entity may go.
Despawns ==
    { << alive, asleep >> }
    \cup { << alive \ Despawned(e), asleep \ Despawned(e) >> : e \in alive }

\* Oracle outputs and hook behaviours of the lifecycle specification.
LifecycleShapes == { NoContact, [ count |-> 1, fid |-> 1, pos |-> 0 ] }

LifecycleHooks == { "inactive", "reject", "clear" }

\* Oracle outputs and hook behaviours of the matching specification.
MatchShapes ==
    { NoContact }
    \cup { [ count |-> 1, fid |-> f, pos |-> x ] : f \in { 0, 1 }, x \in 0 .. MaxPos }
    \cup { [ count |-> n, fid |-> 1, pos |-> 0 ] :
             n \in { MatchManifoldLimit, MatchManifoldLimit + 1 } }

MatchHooks == { "inactive", "truncate" }

\* Oracle outputs and hook behaviours of the degenerate-manifold
\* specification: up to two manifolds, and a hook that may take every point
\* out of the first.
DegenerateShapes ==
    { NoContact } \cup { [ count |-> n, fid |-> 1, pos |-> 0 ] : n \in { 1, 2 } }

DegenerateHooks == { "inactive", "drain" }

\* The collider entities of the margin specification: a body's own collider
\* with the child of a body, or the child of a body with a collider that
\* has no body.
MarginWorlds ==
    { << [attach |-> "self",   rb |-> "Dynamic", sensor |-> FALSE, body_sensor |-> FALSE],
         [attach |-> "parent", rb |-> "Dynamic", sensor |-> FALSE, body_sensor |-> FALSE] >>,
      << [attach |-> "parent", rb |-> "Dynamic", sensor |-> FALSE, body_sensor |-> FALSE],
         [attach |-> "none",   rb |-> "None",    sensor |-> FALSE, body_sensor |-> FALSE] >> }

\* The margin components and velocities of the margin specification: each
\* margin absent, on the body only, or on the collider and the body.
MarginComponents ==
    { [ collision_margin       |-> cm[1],
        rb_collision_margin    |-> cm[2],
        speculative_margin     |-> sm[1],
        rb_speculative_margin  |-> sm[2],
        lin_vel                |-> v ] :
        cm \in { << None, None >>, << None, Some(2) >>, << Some(1), Some(2) >> },
        sm \in { << None, None >>, << None, Some(2) >>, << Some(1), Some(2) >> },
        v \in { 0 - MaxSpeed, 0, MaxSpeed } }

\* The impulses the solver can accumulate on the points of a pair.
LifecycleImpulses == { << 1, 2 >> }

MatchImpulses == { << 0, 0 >>, << 1, 2 >>, << 2, 1 >> }

\* ----------------------------------------------------------------- actions

\* Between two steps: the world changes, then the broad phase lists this
\* step's candidate pairs; the shapes' geometry and the hook's behaviour for
\* the listed pairs are fixed for the step.
BetweenSteps(changes, shapes, hooks) ==
    /\ pc = "env"
    /\ Ran(<< >>)
    /\ \E change \in changes :
          /\ alive' = change[1]
          /\ asleep' = change[2]
    /\ \E pairs \in PairLists :
          /\ broad_collision_pairs' = pairs
          /\ \E geo \in [ KeysOf(pairs) -> shapes ], hk \in [ KeysOf(pairs) -> hooks ] :
                /\ geometry' = [ k \in AllKeys |->
                                   IF k \in KeysOf(pairs) THEN geo[k] ELSE NoContact ]
                /\ hook' = [ k \in AllKeys |->
                               IF k \in KeysOf(pairs) THEN hk[k] ELSE "inactive" ]
    /\ UNCHANGED << world, collected, collisions, constraints, commands >>

\* Between two steps the Sensor component is inserted on or removed from a
\* collider entity; a body on that entity is the same entity.
ChangeComponents ==
    /\ pc = "env"
    /\ \E c \in Colliders :
          colliders' = [ colliders EXCEPT
                           ![c].sensor = ~@,
                           ![c].body_sensor =
                               IF colliders[c].attach = "self" THEN ~colliders[c].sensor
                               ELSE @ ]
    /\ UNCHANGED << instances, backend, margins, config, delta_secs, match_contacts,
                    length_unit, parallel, collected, runs, alive, asleep, collisions,
                    broad_collision_pairs, geometry, hook, constraints, commands, pc >>

\* The values a user can give the two margins of NarrowPhaseConfig.
ConfigValues ==
    [ default_speculative_margin : { ScalarMax, 1 },
      contact_tolerance          : { DefaultContactTolerance, 2 } ]

\* Between two steps the NarrowPhaseConfig resource is written: change
\* detection marks it changed for every system that reads it.
ChangeConfig ==
    /\ pc = "env"
    /\ \E new \in ConfigValues \ { config } : config' = new
    /\ config_changed' = [ C \in DOMAIN config_changed |-> TRUE ]
    /\ UNCHANGED << instances, backend, colliders, margins, delta_secs, match_contacts,
                    length_unit, parallel, cached, oracle_calls, hook_calls, par, runs,
                    alive, asleep, collisions, broad_collision_pairs, geometry, hook,
                    constraints, commands, pc >>

\* Between two steps the PhysicsLengthUnit resource is written; that is no
\* change of NarrowPhaseConfig.
ChangeLengthUnit ==
    /\ pc = "env"
    /\ \E new \in (1 .. MaxLengthUnit) \ { length_unit } : length_unit' = new
    /\ UNCHANGED << instances, backend, colliders, margins, config, delta_secs,
                    match_contacts, parallel, collected, runs, alive, asleep, collisions,
                    broad_collision_pairs, geometry, hook, constraints, commands, pc >>

\* reset_collision_states.  A second pass over the registry in the same
\* stage would leave it as the first did.
ResetCollisionStates ==
    /\ pc = "reset"
    /\ collisions' = [ k \in DOMAIN collisions |-> ResetContacts(collisions[k]) ]
    /\ Ran(StageSystems("reset"))
    /\ UNCHANGED << world, collected, alive, asleep, broad_collision_pairs, geometry,
                    hook, constraints, commands >>

\* The registry once the collect_collisions systems have run, in order.
RECURSIVE CollectAll(_, _, _)
CollectAll(systems, reg, i) ==
    IF i > Len(systems) THEN reg
    ELSE CollectAll(systems, Update(systems[i].instance, reg, broad_collision_pairs), i + 1)

\* The calls of the oracle and of the hook the systems make, in order.
RECURSIVE OracleCallsAll(_, _)
OracleCallsAll(systems, i) ==
    IF i > Len(systems) THEN << >>
    ELSE OracleCalls(systems[i].instance, RefreshedCache(systems[i].instance),
                     broad_collision_pairs, 1)
         \o OracleCallsAll(systems, i + 1)

RECURSIVE HookCallsAll(_, _)
HookCallsAll(systems, i) ==
    IF i > Len(systems) THEN << >>
    ELSE HookCalls(systems[i].instance, broad_collision_pairs, 1)
         \o HookCallsAll(systems, i + 1)

\* collect_collisions::<C, H> of every instance: nothing orders them among
\* themselves, and the registry they all write keeps them from overlapping.
CollectCollisions ==
    /\ pc = "collect"
    /\ \E systems \in Orders(StageSystems("collect")) :
          /\ collisions' = CollectAll(systems, collisions, 1)
          /\ oracle_calls' = OracleCallsAll(systems, 1)
          /\ hook_calls' = HookCallsAll(systems, 1)
          /\ Ran(systems)
    /\ cached' = [ C \in DOMAIN cached |-> RefreshedCache(C) ]
    /\ config_changed' = [ C \in DOMAIN config_changed |-> FALSE ]
    /\ UNCHANGED << world, par, alive, asleep, broad_collision_pairs, geometry, hook,
                    constraints, commands >>

\* NarrowPhase::update with the "parallel" feature, chunk by chunk.  It
\* starts with the cache of the margins; par_splat_map splits the candidate
\* list into chunks and hands each to a task.
ParStart ==
    /\ pc = "collect"
    /\ parallel
    /\ \E chunks \in Chunkings(broad_collision_pairs) :
          par' = [ chunks         |-> chunks,
                   next           |-> [ ch \in DOMAIN chunks |-> 1 ],
                   new_collisions |-> [ ch \in DOMAIN chunks |-> << >> ],
                   merged         |-> 0,
                   start          |-> collisions ]
    /\ cached' = [ C \in DOMAIN cached |-> RefreshedCache(C) ]
    /\ config_changed' = [ C \in DOMAIN config_changed |-> FALSE ]
    /\ oracle_calls' = << >>
    /\ hook_calls' = << >>
    /\ pc' = "map"
    /\ UNCHANGED << world, runs, alive, asleep, collisions, broad_collision_pairs,
                    geometry, hook, constraints, commands >>

\* The task of chunk ch handles its next pair: handle_entity_pair takes
\* &self, and what it returns is pushed to the chunk's new_collisions.
ParWorker(ch) ==
    /\ pc = "map"
    /\ ch \in DOMAIN par.chunks
    /\ par.next[ch] <= Len(par.chunks[ch])
    /\ LET pair == par.chunks[ch][par.next[ch]]
       IN  /\ par' = [ par EXCEPT
                         !.next[ch] = @ + 1,
                         !.new_collisions[ch] =
                             @ \o HandleEntityPair(1, collisions, pair[1], pair[2]) ]
           /\ oracle_calls' = oracle_calls \o OracleCalls(1, cached[1], << pair >>, 1)
           /\ hook_calls' = hook_calls \o HookCalls(1, << pair >>, 1)
    /\ UNCHANGED << world, config_changed, cached, runs, alive, asleep, collisions,
                    broad_collision_pairs, geometry, hook, constraints, commands, pc >>

\* Mutant: the chunks are merged without waiting for the tasks.
ChunksComplete_NoJoin(p) == TRUE

\* par_splat_map has returned: every task has gone through its chunk.
ChunksComplete(p) == \A ch \in DOMAIN p.chunks : p.next[ch] > Len(p.chunks[ch])

\* Mutant: a merge adds the contacts of new pairs only and leaves the entries
\* the registry has as they are.
ParMerge_KeepsOldEntries ==
    /\ pc = "map"
    /\ ChunksComplete(par)
    /\ par.merged < Len(par.chunks)
    /\ collisions' =
          LET merged == Extend(collisions, par.new_collisions[par.merged + 1], 1)
          IN  [ k \in DOMAIN merged |->
                  IF k \in DOMAIN collisions THEN collisions[k] ELSE merged[k] ]
    /\ par' = [ par EXCEPT !.merged = @ + 1 ]
    /\ UNCHANGED << world, config_changed, cached, oracle_calls, hook_calls, runs,
                    alive, asleep, broad_collision_pairs, geometry, hook, constraints,
                    commands, pc >>

\* .into_iter().for_each(|new_collisions| self.collisions.extend(new_collisions))
\* for the next chunk, in chunk order.
ParMerge ==
    /\ pc = "map"
    /\ ChunksComplete(par)
    /\ par.merged < Len(par.chunks)
    /\ collisions' = Extend(collisions, par.new_collisions[par.merged + 1], 1)
    /\ par' = [ par EXCEPT !.merged = @ + 1 ]
    /\ UNCHANGED << world, config_changed, cached, oracle_calls, hook_calls, runs,
                    alive, asleep, broad_collision_pairs, geometry, hook, constraints,
                    commands, pc >>

\* Every chunk is merged: update returns and collect_collisions has run.
ParEnd ==
    /\ pc = "map"
    /\ ChunksComplete(par)
    /\ par.merged = Len(par.chunks)
    /\ par' = NoChunks
    /\ Ran(StageSystems("collect"))
    /\ UNCHANGED << world, config_changed, cached, oracle_calls, hook_calls, alive,
                    asleep, collisions, broad_collision_pairs, geometry, hook,
                    constraints, commands >>

\* run_post_process_collisions_schedule: the schedule holds no system.
RunPostProcessCollisionsSchedule ==
    /\ pc = "post"
    /\ Ran(StageSystems("post"))
    /\ UNCHANGED << world, collected, alive, asleep, collisions, broad_collision_pairs,
                    geometry, hook, constraints, commands >>

\* |mut constraints: ResMut<ContactConstraints>| constraints.clear()
ClearConstraints ==
    /\ pc = "clear"
    /\ constraints' = << >>
    /\ Ran(StageSystems("clear"))
    /\ UNCHANGED << world, collected, alive, asleep, collisions, broad_collision_pairs,
                    geometry, hook, commands >>

\* What the generate_constraints systems push and queue, in order.
RECURSIVE GenerateAllInstances(_, _)
GenerateAllInstances(systems, i) ==
    IF i > Len(systems) THEN [ constraints |-> << >>, commands |-> << >> ]
    ELSE LET one  == GenerateAll(systems[i].instance, collisions,
                                 KeysInOrder(DOMAIN collisions), 1)
             rest == GenerateAllInstances(systems, i + 1)
         IN  [ constraints |-> one.constraints \o rest.constraints,
               commands    |-> one.commands \o rest.commands ]

\* Mutant: a wake-up is applied to the body when it is requested.
GenerateConstraints_WakesAtOnce ==
    /\ pc = "generate"
    /\ \E systems \in Orders(StageSystems("generate")) :
          /\ LET out == GenerateAllInstances(systems, 1)
             IN  /\ Len(constraints) + Len(out.constraints) <= MaxConstraints
                 /\ constraints' = constraints \o out.constraints
                 /\ asleep' = ApplyCommands(asleep, out.commands, 1)
          /\ Ran(systems)
    /\ UNCHANGED << world, collected, alive, commands, collisions,
                    broad_collision_pairs, geometry, hook >>

\* generate_constraints::<C> of every instance that generates constraints.
GenerateConstraints ==
    /\ pc = "generate"
    /\ \E systems \in Orders(StageSystems("generate")) :
          /\ LET out == GenerateAllInstances(systems, 1)
             IN  /\ Len(constraints) + Len(out.constraints) <= MaxConstraints
                 /\ constraints' = constraints \o out.constraints
                 /\ commands' = commands \o out.commands
          /\ Ran(systems)
    /\ UNCHANGED << world, collected, alive, asleep, collisions, broad_collision_pairs,
                    geometry, hook >>

\* The host applies the deferred commands after the stage.
ApplyDeferred ==
    /\ pc = "apply"
    /\ asleep' = ApplyCommands(asleep, commands, 1)
    /\ commands' = << >>
    /\ Ran(StageSystems("apply"))
    /\ UNCHANGED << world, collected, alive, collisions, broad_collision_pairs, geometry,
                    hook, constraints >>

\* The pairs the solver has a constraint for.
Solved == { Canon(constraints[i].entity1, constraints[i].entity2) : i \in DOMAIN constraints }

\* The solver solves the constraints and stores the accumulated impulses in
\* the registry.
SolveContacts(impulses) ==
    /\ pc = "solve"
    /\ \E imp \in impulses :
          collisions' = [ k \in DOMAIN collisions |->
                            IF k \in Solved
                            THEN StoreImpulses(collisions[k], imp[1], imp[2])
                            ELSE collisions[k] ]
    /\ Ran(StageSystems("solve"))
    /\ UNCHANGED << world, collected, alive, asleep, broad_collision_pairs, geometry,
                    hook, constraints, commands >>

\* PhysicsStepSet::ReportContacts: the consumers read the registry.
ReportContacts ==
    /\ pc = "report"
    /\ Ran(StageSystems("report"))
    /\ UNCHANGED << world, collected, alive, asleep, collisions, broad_collision_pairs,
                    geometry, hook, constraints, commands >>

\* remove_ended_collisions
RemoveEndedCollisions ==
    /\ pc = "evict"
    /\ collisions' = Retain(collisions, { k \in DOMAIN collisions :
                                             RetainPredicate(collisions[k]) })
    /\ Ran(StageSystems("evict"))
    /\ UNCHANGED << world, collected, alive, asleep, broad_collision_pairs, geometry,
                    hook, constraints, commands >>

\* The step is over: its candidate list, geometry and hook behaviour and
\* the logs of the step are of no further use, and those of the next step
\* are not known yet.
StepEnds ==
    /\ pc = "end"
    /\ broad_collision_pairs' = << >>
    /\ geometry' = [ k \in AllKeys |-> NoContact ]
    /\ hook' = [ k \in AllKeys |-> "inactive" ]
    /\ oracle_calls' = << >>
    /\ hook_calls' = << >>
    /\ runs' = << >>
    /\ pc' = "env"
    /\ UNCHANGED << world, config_changed, cached, par, alive, asleep, collisions,
                    constraints, commands >>

\* ---------------------------------------------------------- specifications

\* The state after construction, before the first step.
InitCommon ==
    /\ config_changed = [ C \in DOMAIN instances |-> TRUE ]
    /\ cached = [ C \in DOMAIN instances |->
                   [ default_speculative_margin |-> 0, contact_tolerance |-> 0 ] ]
    /\ oracle_calls = << >>
    /\ hook_calls = << >>
    /\ runs = << >>
    /\ par = NoChunks
    /\ alive = Colliders \cup BodyEntities
    /\ asleep = {}
    /\ collisions = EmptyRegistry
    /\ broad_collision_pairs = << >>
    /\ geometry = [ k \in AllKeys |-> NoContact ]
    /\ hook = [ k \in AllKeys |-> "inactive" ]
    /\ constraints = << >>
    /\ commands = << >>
    /\ pc = "env"

\* One instance of the plugin with its default settings, every collider of
\* its collider type, no margin component, bodies at rest and the default
\* configuration.
InitDefaults ==
    /\ instances = << [ generate_constraints |-> TRUE ] >>
    /\ backend = [ c \in Colliders |-> 1 ]
    /\ margins = [ c \in Colliders |-> NoMargins ]
    /\ config = [ default_speculative_margin |-> ScalarMax,
                  contact_tolerance          |-> DefaultContactTolerance ]
    /\ delta_secs = 1

\* Any world of spawned colliders, the default configuration.
Init ==
    /\ colliders \in [ 1 .. NumColliders -> Archetypes ]
    /\ InitDefaults
    /\ match_contacts = TRUE
    /\ length_unit = 1
    /\ parallel \in BOOLEAN
    /\ InitCommon

Step ==
    \/ ResetCollisionStates
    \/ CollectCollisions
    \/ RunPostProcessCollisionsSchedule
    \/ ClearConstraints
    \/ GenerateConstraints
    \/ ApplyDeferred
    \/ ReportContacts
    \/ RemoveEndedCollisions
    \/ StepEnds

Next ==
    \/ BetweenSteps(WorldChanges, LifecycleShapes, LifecycleHooks)
    \/ SolveContacts(LifecycleImpulses)
    \/ Step

Spec == Init /\ [][Next]_vars

\* The matching specification: dynamic bodies that stay awake, any
\* configuration of matching and of the length unit, the oracle's points
\* moving from step to step.
Dynamic == [ attach |-> "self", rb |-> "Dynamic", sensor |-> FALSE, body_sensor |-> FALSE ]

InitMatch ==
    /\ colliders = [ c \in 1 .. NumColliders |-> Dynamic ]
    /\ InitDefaults
    /\ match_contacts \in BOOLEAN
    /\ length_unit \in 1 .. MaxLengthUnit
    /\ parallel \in BOOLEAN
    /\ InitCommon

NextMatch ==
    \/ BetweenSteps({ << alive, asleep >> }, MatchShapes, MatchHooks)
    \/ SolveContacts(MatchImpulses)
    \/ Step

SpecMatch == InitMatch /\ [][NextMatch]_vars

\* The margin specification: one instance, two colliders with any margin
\* components and body velocities, a bounded or unbounded default
\* speculative margin and any time step.
InitMargin ==
    /\ \E w \in MarginWorlds : colliders = [ c \in 1 .. NumColliders |-> w[c] ]
    /\ instances = << [ generate_constraints |-> TRUE ] >>
    /\ backend = [ c \in Colliders |-> 1 ]
    /\ margins \in [ Colliders -> MarginComponents ]
    /\ config \in [ default_speculative_margin : { ScalarMax, 1 },
                     contact_tolerance          : { DefaultContactTolerance } ]
    /\ delta_secs \in 1 .. MaxDeltaSecs
    /\ match_contacts = TRUE
    /\ length_unit = 1
    /\ parallel = FALSE
    /\ InitCommon

NextMargin ==
    \/ BetweenSteps({ << alive, asleep >> }, LifecycleShapes, { "inactive" })
    \/ SolveContacts({ << 0, 0 >> })
    \/ Step

SpecMargin == InitMargin /\ [][NextMargin]_vars

\* The zero-margin specification: the margin specification with the default
\* speculative margin configured to zero.
InitZeroMargin ==
    /\ \E w \in MarginWorlds : colliders = [ c \in 1 .. NumColliders |-> w[c] ]
    /\ instances = << [ generate_constraints |-> TRUE ] >>
    /\ backend = [ c \in Colliders |-> 1 ]
    /\ margins \in [ Colliders -> MarginComponents ]
    /\ config = [ default_speculative_margin |-> 0,
                  contact_tolerance          |-> DefaultContactTolerance ]
    /\ delta_secs \in 1 .. MaxDeltaSecs
    /\ match_contacts = TRUE
    /\ length_unit = 1
    /\ parallel = FALSE
    /\ InitCommon

SpecZeroMargin == InitZeroMargin /\ [][NextMargin]_vars

\* The parallel specification: collection with the "parallel" feature, task
\* by task and merge by merge, in any world of spawned colliders.
InitPar ==
    /\ colliders \in [ 1 .. NumColliders -> Archetypes ]
    /\ InitDefaults
    /\ match_contacts = TRUE
    /\ length_unit = 1
    /\ parallel = TRUE
    /\ InitCommon

NextPar ==
    \/ BetweenSteps(WorldChanges, LifecycleShapes, LifecycleHooks)
    \/ SolveContacts(LifecycleImpulses)
    \/ ParStart
    \/ \E ch \in 1 .. MaxPairs : ParWorker(ch)
    \/ ParMerge
    \/ ParEnd
    \/ ResetCollisionStates
    \/ RunPostProcessCollisionsSchedule
    \/ ClearConstraints
    \/ GenerateConstraints
    \/ ApplyDeferred
    \/ ReportContacts
    \/ RemoveEndedCollisions
    \/ StepEnds

SpecPar == InitPar /\ [][NextPar]_vars

\* The chunk specification: the parallel specification with one collider
\* more, all on awake dynamic bodies, so that a candidate list has several
\* pairs and the chunks of a collection hold different pairs.
InitChunks ==
    /\ colliders = [ c \in 1 .. NumColliders + 1 |-> Dynamic ]
    /\ InitDefaults
    /\ match_contacts = TRUE
    /\ length_unit = 1
    /\ parallel = TRUE
    /\ InitCommon

NextChunks ==
    \/ BetweenSteps({ << alive, asleep >> }, LifecycleShapes, { "inactive", "reject" })
    \/ SolveContacts(LifecycleImpulses)
    \/ ParStart
    \/ \E ch \in 1 .. MaxPairs : ParWorker(ch)
    \/ ParMerge
    \/ ParEnd
    \/ ResetCollisionStates
    \/ RunPostProcessCollisionsSchedule
    \/ ClearConstraints
    \/ GenerateConstraints
    \/ ApplyDeferred
    \/ ReportContacts
    \/ RemoveEndedCollisions
    \/ StepEnds

SpecChunks == InitChunks /\ [][NextChunks]_vars

\* The configuration specification: two colliders on awake dynamic bodies at
\* rest, and the configuration and the length unit are changed between steps.
InitConfig ==
    /\ colliders = [ c \in 1 .. NumColliders |-> Dynamic ]
    /\ InitDefaults
    /\ match_contacts = TRUE
    /\ length_unit \in 1 .. MaxLengthUnit
    /\ parallel \in BOOLEAN
    /\ InitCommon

NextConfig ==
    \/ ChangeConfig
    \/ ChangeLengthUnit
    \/ BetweenSteps({ << alive, asleep >> }, LifecycleShapes, { "inactive" })
    \/ SolveContacts(LifecycleImpulses)
    \/ Step

SpecConfig == InitConfig /\ [][NextConfig]_vars

\* The sensor specification: two colliders on awake dynamic bodies, each a
\* sensor or not, and the Sensor component comes and goes between steps.
InitSensor ==
    /\ colliders \in [ 1 .. NumColliders ->
                          { Dynamic, [ Dynamic EXCEPT !.sensor = TRUE, !.body_sensor = TRUE ] } ]
    /\ InitDefaults
    /\ match_contacts = TRUE
    /\ length_unit = 1
    /\ parallel = FALSE
    /\ InitCommon

NextSensor ==
    \/ ChangeComponents
    \/ BetweenSteps({ << alive, asleep >> }, LifecycleShapes, { "inactive" })
    \/ SolveContacts(LifecycleImpulses)
    \/ Step

SpecSensor == InitSensor /\ [][NextSensor]_vars

\* The degenerate-manifold specification: awake dynamic bodies whose hook may
\* leave a manifold without points.
InitDegenerate ==
    /\ colliders = [ c \in 1 .. NumColliders |-> Dynamic ]
    /\ InitDefaults
    /\ match_contacts \in BOOLEAN
    /\ length_unit = 1
    /\ parallel \in BOOLEAN
    /\ InitCommon

NextDegenerate ==
    \/ BetweenSteps({ << alive, asleep >> }, DegenerateShapes, DegenerateHooks)
    \/ SolveContacts(LifecycleImpulses)
    \/ Step

SpecDegenerate == InitDegenerate /\ [][NextDegenerate]_vars

\* The plugin instances an app can be built with: each generates
\* constraints or does not.
InstanceLists ==
    UNION { [ 1 .. n -> [ generate_constraints : BOOLEAN ] ] : n \in 1 .. MaxInstances }

\* The build specification: any number of plugin instances with any
\* generate_constraints settings, two colliders on awake dynamic bodies,
\* each of the collider type of one of the instances.
InitBuild ==
    /\ colliders = [ c \in 1 .. NumColliders |-> Dynamic ]
    /\ instances \in InstanceLists
    /\ backend \in [ Colliders -> DOMAIN instances ]
    /\ margins = [ c \in Colliders |-> NoMargins ]
    /\ config = [ default_speculative_margin |-> ScalarMax,
                  contact_tolerance          |-> DefaultContactTolerance ]
    /\ delta_secs = 1
    /\ match_contacts = TRUE
    /\ length_unit = 1
    /\ parallel = FALSE
    /\ InitCommon

NextBuild ==
    \/ BetweenSteps({ << alive, asleep >> }, LifecycleShapes, { "inactive" })
    \/ SolveContacts({ << 0, 0 >> })
    \/ Step

SpecBuild == InitBuild /\ [][NextBuild]_vars

\* The despawn specification: one collider more than in the others, all on
\* awake dynamic bodies, so that a step has several pairs; entities are
\* despawned between steps.
InitDespawn ==
    /\ colliders = [ c \in 1 .. NumColliders + 1 |-> Dynamic ]
    /\ InitDefaults
    /\ match_contacts = TRUE
    /\ length_unit = 1
    /\ parallel \in BOOLEAN
    /\ InitCommon

NextDespawn ==
    \/ BetweenSteps(Despawns, LifecycleShapes, { "inactive" })
    \/ SolveContacts(LifecycleImpulses)
    \/ Step

SpecDespawn == InitDespawn /\ [][NextDespawn]_vars

\* ------------------------------------------------------------------ claims

\* The two collider entities of a registry key, a Contacts or a constraint.
Sides(x) == { x.entity1, x.entity2 }

\* The constraints in the list that belong to the pair of registry key k.
ConstraintsOf(k) ==
    { i \in DOMAIN constraints : Sides(constraints[i]) = { k[1], k[2] } }

\* Collider c has a rigid body and the body entity exists.
HasLiveBody(c) ==
    /\ colliders[c].attach \in { "self", "parent" }
    /\ (IF colliders[c].attach = "self" THEN c ELSE ParentOf(c)) \in alive

\* The body of collider c is static or sleeping.
StaticOrSleeping(c) ==
    \/ colliders[c].rb = "Static"
    \/ (IF colliders[c].attach = "self" THEN c ELSE ParentOf(c)) \in asleep

\* Collider c or its body carries the Sensor component.
SensorSide(c) == colliders[c].sensor \/ colliders[c].body_sensor

\* Both bodies of the entry at key k exist and are static or sleeping.
BothInactive(k) ==
    /\ HasLiveBody(k[1]) /\ HasLiveBody(k[2])
    /\ StaticOrSleeping(k[1]) /\ StaticOrSleeping(k[2])

\* The pair of key k is listed by the broad phase this step and collection
\* gets a Contacts for it: both colliders exist, the oracle returns
\* manifolds, and the hook neither rejects the pair nor empties its list.
Yields(k) ==
    /\ k \in KeysOf(broad_collision_pairs)
    /\ k[1] \in alive /\ k[2] \in alive
    /\ geometry[k].count > 0
    /\ hook[k] \notin { "reject", "clear" }

\* The stages of a step between collection and the solver: the registry is
\* as collection left it.
AfterCollection == pc \in { "post", "clear", "generate", "apply" }

\* C1: for a registry pair whose two bodies are both static or sleeping,
\* constraint generation emits no constraint, whatever manifolds the entry
\* holds: right after generation the list holds no constraint of the pair.
C1_NoConstraintWhenBothInactive ==
    pc = "apply" =>
        \A k \in DOMAIN collisions : BothInactive(k) => ConstraintsOf(k) = {}

\* C1 witness: generation has run over an entry with manifolds between a
\* sleeping dynamic body and another inactive body, neither side a sensor.
C1_Witness ==
    /\ pc = "apply"
    /\ \E k \in DOMAIN collisions :
          /\ BothInactive(k)
          /\ k[1] \in alive /\ k[2] \in alive
          /\ ~SensorSide(k[1]) /\ ~SensorSide(k[2])
          /\ \E c \in { k[1], k[2] } : colliders[c].rb = "Dynamic"
          /\ collisions[k].manifolds # << >>
          /\ collisions[k].during_current_frame

\* C2: for a pair with a sensor collider, generation emits no constraint,
\* yet when collection gets manifolds for the pair the registry holds its
\* entry with is_sensor = TRUE and during_current_frame = TRUE.
C2_SensorPairRegisteredNotConstrained ==
    \A k \in AllKeys :
        (colliders[k[1]].sensor \/ colliders[k[2]].sensor) =>
            /\ (pc = "apply" => ConstraintsOf(k) = {})
            /\ (AfterCollection /\ Yields(k) =>
                    /\ k \in DOMAIN collisions
                    /\ collisions[k].is_sensor
                    /\ collisions[k].during_current_frame)

\* C2 witness: generation has run over a fresh entry of a sensor collider
\* against an awake dynamic body that is no sensor.
C2_Witness ==
    /\ pc = "apply"
    /\ \E k \in DOMAIN collisions :
          /\ Yields(k)
          /\ \E s \in { k[1], k[2] } : \E d \in { k[1], k[2] } :
                /\ colliders[s].sensor
                /\ ~SensorSide(d) /\ colliders[d].rb = "Dynamic"
                /\ HasLiveBody(s) /\ HasLiveBody(d) /\ ~StaticOrSleeping(d)
          /\ collisions[k].is_sensor
          /\ ConstraintsOf(k) = {}

\* The step of the stage named stage is being taken.
Taking(stage) == pc = stage

\* No two keys of the registry reg are the same unordered pair.
OneEntryPerPair(reg) ==
    \A k1 \in DOMAIN reg : \A k2 \in DOMAIN reg :
        { k1[1], k1[2] } = { k2[1], k2[2] } => k1 = k2

\* C3: the registry never holds two entries of one unordered pair, and
\* collection, sequential or parallel, resolves every candidate that yields
\* manifolds, in either order and however often it is listed, to the pair's
\* one entry: the entry is the only one of the pair, it is fresh, and it is
\* marked as continuing exactly when the pair had an entry before.
C3_OneEntryPerUnorderedPair ==
    [][ /\ OneEntryPerPair(collisions')
        /\ Taking("collect") =>
              /\ DOMAIN collisions' = DOMAIN collisions \cup { k \in AllKeys : Yields(k) }
              /\ \A k \in AllKeys : Yields(k) =>
                    /\ Sides(collisions'[k]) = { k[1], k[2] }
                    /\ collisions'[k].during_current_frame
                    /\ collisions'[k].during_previous_frame <=> k \in DOMAIN collisions
      ]_vars

\* C3 witness: collection has handled a pair listed as (A,B) and as (B,A)
\* that had an entry before; the one entry is the one written last.
C3_Witness ==
    /\ pc = "post"
    /\ \E i \in DOMAIN broad_collision_pairs : \E j \in DOMAIN broad_collision_pairs :
          LET p == broad_collision_pairs[i]
              k == Canon(p[1], p[2])
          IN  /\ i < j
              /\ broad_collision_pairs[j] = << p[2], p[1] >>
              /\ Yields(k)
              /\ k \in DOMAIN collisions
              /\ collisions[k].entity1 = p[2]
              /\ collisions[k].during_previous_frame
              /\ Cardinality(DOMAIN collisions) = 1

\* The entity the reset looks a side of an entry up by: the body, or the
\* collider itself when it has no body.
ResetEntity(c) ==
    IF colliders[c].attach = "parent" THEN ParentOf(c) ELSE c

\* Both sides of the pair of key k exist for the reset and at least one of
\* them is active: not static and not sleeping.
ActivePair(k) ==
    /\ ResetEntity(k[1]) \in alive /\ ResetEntity(k[2]) \in alive
    /\ \E c \in { k[1], k[2] } :
          colliders[c].rb # "Static" /\ ResetEntity(c) \notin asleep

\* The stages of a step from the end of collection to the eviction.
CollectionToEviction == { "post", "clear", "generate", "apply", "solve", "report" }

\* The flags of the entries of the registry reg.
Flags(reg) ==
    [ k \in DOMAIN reg |->
        << reg[k].during_current_frame, reg[k].during_previous_frame >> ]

\* After collection, the entry of an active pair that yielded nothing this
\* step shows the end of the contact.
EndedShown ==
    AfterCollection =>
        \A k \in DOMAIN collisions : ~Yields(k) /\ ActivePair(k) =>
            ~collisions[k].during_current_frame /\ collisions[k].during_previous_frame

\* Between two steps every entry had during_current_frame in the step that
\* just ended.
SurvivorsWereCurrent ==
    pc \in { "end", "env", "reset" } =>
        \A k \in DOMAIN collisions : collisions[k].during_current_frame

\* C4: an entry of an active pair that stops yielding manifolds was current
\* in the step before, shows during_current_frame = FALSE and
\* during_previous_frame = TRUE from the end of collection until contact
\* reporting has run, and is removed by the eviction of that same step; no
\* entry leaves the registry but by eviction.
C4_EndedEntryEvictedOneStepLater ==
    [][ /\ EndedShown'
        /\ SurvivorsWereCurrent'
        /\ pc \in CollectionToEviction => Flags(collisions') = Flags(collisions)
        /\ ~Taking("evict") => DOMAIN collisions \subseteq DOMAIN collisions'
        /\ Taking("evict") =>
              /\ DOMAIN collisions' =
                    { k \in DOMAIN collisions : collisions[k].during_current_frame }
              /\ \A k \in DOMAIN collisions' : collisions'[k] = collisions[k]
      ]_vars

\* C4 witness: contact reporting runs over the entry of an active pair that
\* did not yield this step; the entry shows the end of the contact.
C4_Witness ==
    /\ pc = "report"
    /\ \E k \in DOMAIN collisions :
          /\ ~Yields(k)
          /\ ActivePair(k)
          /\ k[1] \in alive /\ k[2] \in alive
          /\ ~collisions[k].during_current_frame
          /\ collisions[k].during_previous_frame

\* The hook is asked about the pair of key k this step and returns false.
Rejected(k) ==
    /\ k \in KeysOf(broad_collision_pairs)
    /\ k[1] \in alive /\ k[2] \in alive
    /\ geometry[k].count > 0
    /\ hook[k] = "reject"

\* Collection leaves the registry as it is for every rejected pair.
RejectedPairUntouched ==
    \A k \in AllKeys : Rejected(k) =>
        /\ k \in DOMAIN collisions' <=> k \in DOMAIN collisions
        /\ k \in DOMAIN collisions => collisions'[k] = collisions[k]

\* C5: a pair the hook returns false for is discarded for the step:
\* collection leaves the registry as it is for the pair, and generation
\* emits no constraint for it, whether or not the pair had an entry.
C5_RejectedPairDiscarded ==
    [][ /\ Taking("collect") => RejectedPairUntouched
        /\ Taking("generate") =>
              \A k \in AllKeys : Rejected(k) => ConstraintsOf(k)' = {}
      ]_vars

\* C6: an entry whose two bodies exist and are static or sleeping comes out
\* of every reset with both flags set, shows during_current_frame = TRUE at
\* every later stage of the step, contact reporting included, whether or not
\* the pair yields manifolds, and is kept by the eviction.
C6_InactivePairStaysCurrent ==
    [][ /\ Taking("reset") =>
              \A k \in DOMAIN collisions : BothInactive(k) =>
                  /\ collisions'[k].during_current_frame
                  /\ collisions'[k].during_previous_frame
        /\ pc \in CollectionToEviction =>
              \A k \in DOMAIN collisions : BothInactive(k) =>
                  collisions[k].during_current_frame
        /\ Taking("evict") =>
              \A k \in DOMAIN collisions : BothInactive(k) =>
                  k \in DOMAIN collisions' /\ collisions'[k] = collisions[k]
      ]_vars

\* C6 witness: contact reporting runs over the entry of two inactive bodies,
\* one of them asleep, whose pair the broad phase did not list this step.
C6_Witness ==
    /\ pc = "report"
    /\ \E k \in DOMAIN collisions :
          /\ BothInactive(k)
          /\ k \notin KeysOf(broad_collision_pairs)
          /\ \E c \in { k[1], k[2] } : colliders[c].rb # "Static"
          /\ collisions[k].during_current_frame
          /\ collisions[k].during_previous_frame

\* An entity of the pair of key k, a collider or a body, does not exist.
EntityMissing(k) ==
    \E c \in { k[1], k[2] } :
        \/ c \notin alive
        \/ (colliders[c].attach = "parent" /\ ParentOf(c) \notin alive)

\* C7: an entry with an entity that does not exist when the reset runs comes
\* out of the reset with during_previous_frame = TRUE and
\* during_current_frame = FALSE, and the eviction of the step removes it.
C7_MissingEntityIsTerminal ==
    [][ /\ Taking("reset") =>
              \A k \in DOMAIN collisions : EntityMissing(k) =>
                  /\ collisions'[k].during_previous_frame
                  /\ ~collisions'[k].during_current_frame
        /\ Taking("evict") =>
              \A k \in DOMAIN collisions : EntityMissing(k) =>
                  k \notin DOMAIN collisions'
      ]_vars

\* The body entity of collider c, when it has one.
BodyEntityOf(c) == IF colliders[c].attach = "self" THEN c ELSE ParentOf(c)

\* Both colliders of the pair of key k exist and have a body that exists.
PairHasBodies(k) ==
    /\ k[1] \in alive /\ k[2] \in alive
    /\ HasLiveBody(k[1]) /\ HasLiveBody(k[2])

\* The pair of key k is skipped by generation: both bodies inactive, or a
\* sensor on a side.
Skipped(k) ==
    \/ (StaticOrSleeping(k[1]) /\ StaticOrSleeping(k[2]))
    \/ SensorSide(k[1]) \/ SensorSide(k[2])

\* The sleeping bodies of the pair of key k whose other body is active.
SleepingAgainstActive(k) ==
    { BodyEntityOf(c) : c \in { d \in { k[1], k[2] } :
        /\ BodyEntityOf(d) \in asleep
        /\ \E o \in { k[1], k[2] } \ { d } : ~StaticOrSleeping(o) } }

\* The entry of key k is handed to the per-pair generation: its colliders
\* and bodies exist and a body is dynamic.
HandedToGeneration(k) ==
    /\ PairHasBodies(k)
    /\ \E c \in { k[1], k[2] } : colliders[c].rb = "Dynamic"

\* The wake-up requests in the queue.
Requested == { commands[i] : i \in DOMAIN commands }

\* C8 (as amended): right after generation the queue holds one wake-up
\* request for each registry pair that was handed to the per-pair generation,
\* was not skipped, and has one body sleeping and the other active; the
\* request names the sleeping body, and the queue holds no other request.
C8_WakeUpExactlySleepingAgainstActive ==
    pc = "apply" =>
        LET waking == { k \in DOMAIN collisions :
                          /\ HandedToGeneration(k)
                          /\ ~Skipped(k)
                          /\ SleepingAgainstActive(k) # {} }
        IN  /\ Requested = UNION { SleepingAgainstActive(k) : k \in waking }
            /\ Len(commands) = Cardinality(waking)

\* C8 witness: generation has queued the request for a sleeping body whose
\* pair has an active body on the other side.
C8_Witness ==
    /\ pc = "apply"
    /\ \E k \in DOMAIN collisions :
          /\ HandedToGeneration(k)
          /\ ~Skipped(k)
          /\ \E b \in SleepingAgainstActive(k) : commands = << b >>

\* C8 (as stated): right after generation, every registry pair with bodies
\* that is not skipped has a request queued for its sleeping body exactly
\* when one body is sleeping and the other active.
C8_AsStated ==
    pc = "apply" =>
        \A k \in DOMAIN collisions : PairHasBodies(k) /\ ~Skipped(k) =>
            /\ SleepingAgainstActive(k) \subseteq Requested
            /\ SleepingAgainstActive(k) = {} =>
                  Requested \cap { BodyEntityOf(k[1]), BodyEntityOf(k[2]) } = {}

\* The points of the entry of key k in the registry reg.
PointsOf(reg, k) ==
    UNION { { reg[k].manifolds[i].points[j] : j \in DOMAIN reg[k].manifolds[i].points }
            : i \in DOMAIN reg[k].manifolds }

\* Point p matches the previous point q: by a known feature id, else by
\* position within 0.1 * length_unit (positions are in tenths of a metre).
Matches(p, q) ==
    \/ (p.feature_id # 0 /\ p.feature_id = q.feature_id)
    \/ Abs(p.pos - q.pos) < length_unit

SameImpulses(p, q) ==
    /\ p.normal_impulse = q.normal_impulse
    /\ p.tangent_impulse = q.tangent_impulse

ZeroImpulses(p) == p.normal_impulse = 0 /\ p.tangent_impulse = 0

\* C9: with matching enabled and at most 4 manifolds committed for a pair,
\* every committed point that matches a point of the entry the pair had when
\* collection started carries a matching previous point's impulses, and
\* every committed point that matches none carries zero impulses.
C9_MatchedPointsWarmStarted ==
    [][ Taking("collect") =>
          \A k \in DOMAIN collisions :
              ( /\ Yields(k)
                /\ match_contacts
                /\ Len(collisions'[k].manifolds) <= MatchManifoldLimit ) =>
              \A p \in PointsOf(collisions', k) :
                  LET matched == { q \in PointsOf(collisions, k) : Matches(p, q) }
                  IN  IF matched # {}
                      THEN \E q \in matched : SameImpulses(p, q)
                      ELSE ZeroImpulses(p)
      ]_vars

\* C9 witness: collection has committed a point without a feature id that
\* carries impulses: it was matched by position with the previous entry.
C9_Witness ==
    /\ pc = "post"
    /\ match_contacts
    /\ \E k \in DOMAIN collisions :
          /\ Yields(k)
          /\ collisions[k].during_previous_frame
          /\ Len(collisions[k].manifolds) <= MatchManifoldLimit
          /\ \E p \in PointsOf(collisions, k) :
                p.feature_id = 0 /\ p.normal_impulse # 0

\* C10: when more than 4 manifolds are committed for a pair, or matching is
\* disabled, or the pair had no entry when collection started, every
\* committed point of the pair carries zero impulses.
C10_NoMatchingOutsideGuard ==
    [][ Taking("collect") =>
          \A k \in AllKeys :
              ( /\ Yields(k)
                /\ \/ ~match_contacts
                   \/ Len(collisions'[k].manifolds) > MatchManifoldLimit
                   \/ k \notin DOMAIN collisions ) =>
              \A p \in PointsOf(collisions', k) : ZeroImpulses(p)
      ]_vars

\* C10 witness: with matching enabled, collection has committed more than 4
\* manifolds for a pair that had an entry; none of the points carries
\* impulses.
C10_Witness ==
    /\ pc = "post"
    /\ match_contacts
    /\ \E k \in DOMAIN collisions :
          /\ Yields(k)
          /\ collisions[k].during_previous_frame
          /\ Len(collisions[k].manifolds) > MatchManifoldLimit
          /\ \A p \in PointsOf(collisions, k) : ZeroImpulses(p)

\* ---- C11

\* The speculative margin a side is resolved to: its own, else its body's,
\* else the cached default.
ResolvedMargin(c) == UnwrapOr(SpeculativeMargin(c), cached[backend[c]].default_speculative_margin)

\* What a side can contribute to the effective margin: its margin when that
\* is finite, else the distance it moves in the step.
Contribution(c) ==
    IF ResolvedMargin(c) < ScalarMax THEN ResolvedMargin(c)
    ELSE delta_secs * Abs(LinVel(c))

\* delta_time * v for the relative speed v of a pair.
RelativeDisplacement(c1, c2) == delta_secs * Abs(LinVel(c1) - LinVel(c2))

\* The effective margin of a pair the oracle was called for in this step.
Effective(call) ==
    EffectiveSpeculativeMargin(cached[backend[call.entity1]], call.entity1, call.entity2)

ContactTolerance(call) == cached[backend[call.entity1]].contact_tolerance

\* C11 as stated: a finite margin m of a side that the relative displacement
\* exceeds bounds the effective margin of the pair, and the maximum contact
\* distance is at most m plus the collision-margin sum when m is at least
\* the contact tolerance.
C11_ClampedToOneMargin ==
    \A i \in DOMAIN oracle_calls :
        LET call == oracle_calls[i]
        IN  \A c \in { call.entity1, call.entity2 } :
                LET m == ResolvedMargin(c)
                IN  (m < ScalarMax /\ RelativeDisplacement(call.entity1, call.entity2) > m)
                    => /\ Effective(call) <= m
                       /\ m >= ContactTolerance(call)
                            => call.max_distance
                                 <= m + CollisionMarginSum(call.entity1, call.entity2)

\* C11, amended: the clamp bounds what each side contributes.  The effective
\* margin of a pair is at most the sum of the two sides' contributions, a
\* side contributing at most its margin when that is finite, and the
\* maximum contact distance is at most the larger of that sum and the
\* contact tolerance, plus the collision-margin sum.
C11_ClampedPerSide ==
    \A i \in DOMAIN oracle_calls :
        LET call  == oracle_calls[i]
            bound == Contribution(call.entity1) + Contribution(call.entity2)
        IN  /\ Effective(call) <= bound
            /\ call.max_distance
                 <= Max(bound, ContactTolerance(call))
                    + CollisionMarginSum(call.entity1, call.entity2)

\* A pair whose sides both have a finite margin below what they move, and
\* whose effective margin is above either margin.
C11_Witness ==
    \E i \in DOMAIN oracle_calls :
        LET call == oracle_calls[i]
            m1   == ResolvedMargin(call.entity1)
            m2   == ResolvedMargin(call.entity2)
        IN  /\ m1 < ScalarMax /\ m2 < ScalarMax
            /\ delta_secs * Abs(LinVel(call.entity1)) > m1
            /\ delta_secs * Abs(LinVel(call.entity2)) > m2
            /\ Effective(call) > m1
            /\ Effective(call) > m2

\* ---- C12

\* A side's collision margin: the collider's, else the body's, else 0.
CollisionMarginOfSide(c) ==
    IF margins[c].collision_margin # None THEN margins[c].collision_margin[1]
    ELSE IF BodyResolves(c) /\ colliders[c].attach = "parent"
            /\ margins[c].rb_collision_margin # None
    THEN margins[c].rb_collision_margin[1]
    ELSE 0

\* C12: the max distance every call of the oracle gets is the larger of the
\* pair's effective margin and the contact tolerance, plus the two sides'
\* collision margins, each resolved collider first, then body, then 0; so
\* it is never below the contact tolerance plus that sum.
C12_MaxDistancePassedToOracle ==
    \A i \in DOMAIN oracle_calls :
        LET call == oracle_calls[i]
            sum  == CollisionMarginOfSide(call.entity1) + CollisionMarginOfSide(call.entity2)
        IN  /\ call.max_distance
                 = (IF Effective(call) > ContactTolerance(call)
                    THEN Effective(call) ELSE ContactTolerance(call)) + sum
            /\ call.max_distance >= ContactTolerance(call) + sum

\* The oracle is called for a pair with a collision margin from a collider
\* on one side and from a body on the other, and an effective margin below
\* the contact tolerance.
C12_Witness ==
    \E i \in DOMAIN oracle_calls :
        LET call == oracle_calls[i]
        IN  /\ margins[call.entity1].collision_margin # None
            /\ margins[call.entity2].collision_margin = None
            /\ CollisionMarginOfSide(call.entity2) > 0
            /\ Effective(call) < ContactTolerance(call)

\* ---- C13

\* The systems of the narrow phase up to constraint generation that have
\* run in this step, in the order they ran.
NarrowPhaseRuns ==
    SelectSeq(runs, LAMBDA sys :
        sys.system \in { "reset", "collect", "post", "clear", "generate" })

\* The position of the first run of a system in the log of the step, 0
\* when it has not run.
FirstRun(name) ==
    IF name \in Done(runs)
    THEN CHOOSE i \in DOMAIN runs :
             /\ runs[i].system = name
             /\ \A j \in 1 .. i - 1 : runs[j].system # name
    ELSE 0

\* C13: in every step the narrow-phase stages run in the order reset,
\* collection, post-processing, clearing of the constraint list, constraint
\* generation; post-processing runs neither before collection nor after
\* generation has started; eviction runs only after contact reporting; and
\* a step that ends has run them all.
C13_StagesInOrder ==
    /\ \A i \in DOMAIN NarrowPhaseRuns :
          NarrowPhaseRuns[i].system
            = << "reset", "collect", "post", "clear", "generate" >>[i]
    /\ Len(NarrowPhaseRuns) <= 5
    /\ "post" \in Done(runs) => "collect" \in Done(runs)
    /\ ("post" \in Done(runs) /\ "generate" \in Done(runs))
          => FirstRun("post") < FirstRun("generate")
    /\ "evict" \in Done(runs)
          => (FirstRun("report") > 0 /\ FirstRun("report") < FirstRun("evict"))
    /\ pc = "end" => (Len(NarrowPhaseRuns) = 5 /\ "evict" \in Done(runs))

\* A step that generated a constraint has run all its stages.
C13_Witness ==
    /\ pc = "end"
    /\ Len(NarrowPhaseRuns) = 5
    /\ constraints # << >>

\* ---- C14

\* C14: while a parallel collection is under way, a step of a task leaves
\* the registry alone and writes one chunk's result list only; the registry
\* changes only in a merge, one chunk at a time in chunk order, and only
\* once every task has gone through its chunk; and what the merges leave is
\* what handling every pair against the registry as collection found it
\* and inserting the results in order gives.
C14_WorkersReadMergeWrites ==
    [][ pc = "map" =>
          /\ collisions' # collisions =>
                /\ \A ch \in DOMAIN par.chunks : par.next[ch] > Len(par.chunks[ch])
                /\ par'.merged = par.merged + 1
                /\ par'.new_collisions = par.new_collisions
                /\ par'.next = par.next
          /\ (pc' = "map" /\ par'.new_collisions # par.new_collisions) =>
                /\ collisions' = collisions
                /\ par.merged = 0
                /\ \E ch \in DOMAIN par.chunks :
                      \A other \in DOMAIN par.chunks \ { ch } :
                          par'.new_collisions[other] = par.new_collisions[other]
          /\ pc' # "map" =>
                collisions' = UpdateParallel(1, par.start, broad_collision_pairs)
      ]_vars

\* Two chunks have each produced a contact for a pair that has an entry,
\* and the first chunk is merged.
C14_Witness ==
    /\ pc = "map"
    /\ Len(par.chunks) = 2
    /\ par.merged = 1
    /\ par.start # EmptyRegistry
    /\ \A ch \in DOMAIN par.chunks : par.new_collisions[ch] # << >>

\* ---- C15

ColliderMissing(k) == k[1] \notin alive \/ k[2] \notin alive

\* The candidate pairs whose two colliders exist, in the order listed.
ResolvablePairs ==
    SelectSeq(broad_collision_pairs, LAMBDA p : p[1] \in alive /\ p[2] \in alive)

\* C16: a candidate pair with a collider that does not exist is skipped:
\* collection leaves the registry as it is for that pair, and still takes
\* every other candidate to the oracle and writes the entry of each that
\* yields manifolds.  A registry entry with a collider that does not exist
\* gets no constraint, and generation still builds the constraints of every
\* other entry that is due one.
C16_MissingColliderSkipped ==
    [][ /\ pc = "collect" =>
              /\ \A k \in KeysOf(broad_collision_pairs) : ColliderMissing(k) =>
                    IF k \in DOMAIN collisions
                    THEN k \in DOMAIN collisions' /\ collisions'[k] = collisions[k]
                    ELSE k \notin DOMAIN collisions'
              /\ \A k \in KeysOf(broad_collision_pairs) : Yields(k) =>
                    /\ k \in DOMAIN collisions'
                    /\ collisions'[k].during_current_frame
              /\ Len(oracle_calls') = Len(ResolvablePairs)
              /\ \A i \in DOMAIN ResolvablePairs :
                    << oracle_calls'[i].entity1, oracle_calls'[i].entity2 >>
                      = ResolvablePairs[i]
        /\ pc = "generate" =>
              \A k \in DOMAIN collisions :
                  /\ ColliderMissing(k) => ConstraintsOf(k)' = {}
                  /\ (HandedToGeneration(k) /\ ~Skipped(k)) => ConstraintsOf(k)' # {}
      ]_vars

\* A step has listed a pair with a despawned collider and another pair, the
\* registry holds an entry of a despawned collider and another entry, and
\* generation has built the constraint of the other pair.
C16_Witness ==
    /\ pc = "apply"
    /\ \E k1 \in KeysOf(broad_collision_pairs) : \E k2 \in KeysOf(broad_collision_pairs) :
          /\ ColliderMissing(k1)
          /\ k1 \in DOMAIN collisions
          /\ ConstraintsOf(k1) = {}
          /\ broad_collision_pairs[1] \in { k1, << k1[2], k1[1] >> }
          /\ ~ColliderMissing(k2)
          /\ Yields(k2)
          /\ ConstraintsOf(k2) # {}

\* ---- C17

\* The oracle returns no manifold for the pair of key k, whose colliders
\* exist.
NoManifolds(k) ==
    /\ k \in KeysOf(broad_collision_pairs)
    /\ k[1] \in alive /\ k[2] \in alive
    /\ geometry[k].count = 0

\* The pairs the hook was called with in this step.
HookCalledFor == { Canon(hook_calls[i][1], hook_calls[i][2]) : i \in DOMAIN hook_calls }

\* C17: when the oracle returns no manifold for a candidate pair, collection
\* leaves the registry as the reset left it for that pair: no entry is
\* created, an entry it has keeps its flags and its manifolds; and the
\* modify-contacts hook is not called for the pair, enabled or not.
C17_NoManifoldsNoEntry ==
    [][ pc = "collect" =>
          \A k \in AllKeys : NoManifolds(k) =>
              /\ IF k \in DOMAIN collisions
                 THEN k \in DOMAIN collisions' /\ collisions'[k] = collisions[k]
                 ELSE k \notin DOMAIN collisions'
              /\ k \notin HookCalledFor'
      ]_vars

\* Collection has handled a pair with the hook enabled for which the oracle
\* returned nothing and which has an entry of an earlier step.
C17_Witness ==
    /\ pc = "post"
    /\ \E k \in AllKeys :
          /\ NoManifolds(k)
          /\ hook[k] # "inactive"
          /\ k \in DOMAIN collisions
          /\ ~collisions[k].during_current_frame
          /\ collisions[k].manifolds # << >>

\* ---- C18

\* C18: no constraint is generated from a registry entry whose is_sensor is
\* TRUE, refreshed in the step or not; and collection writes is_sensor as
\* TRUE exactly when a collider of the pair is a sensor or has no rigid
\* body.
C18_NoConstraintFromSensorEntry ==
    /\ pc = "apply" =>
          \A k \in DOMAIN collisions : collisions[k].is_sensor => ConstraintsOf(k) = {}
    /\ pc = "post" =>
          \A k \in DOMAIN collisions : Yields(k) =>
              (collisions[k].is_sensor
                 <=> \E c \in { k[1], k[2] } :
                        colliders[c].sensor \/ colliders[c].attach = "none")

\* ---- C19

\* The runs of the systems with a name in the log of the step.
RunsOf(name) == SelectSeq(runs, LAMBDA sys : sys.system = name)

\* C19: whatever the plugin instances and their generate_constraints
\* settings, a step in which constraint generation runs clears the list
\* exactly once, and when generation ends the list holds exactly the
\* constraints generated in the step, in the order generated.
C19_ListRebuiltEachStep ==
    (pc = "apply" /\ RunsOf("generate") # << >>) =>
        /\ Len(RunsOf("clear")) = 1
        /\ constraints = GenerateAllInstances(RunsOf("generate"), 1).constraints

\* ---- C20

\* C20: whatever the number of plugin instances on the one registry, a step
\* runs the reset once, the eviction once and collection once per
\* instance: no system runs twice in a step, and a step that ends has run
\* each of them.
C20_OncePerStep ==
    /\ Len(RunsOf("reset")) <= 1
    /\ Len(RunsOf("evict")) <= 1
    /\ \A C \in DOMAIN instances :
          Cardinality({ i \in DOMAIN runs : runs[i] = System("collect", C) }) <= 1
    /\ pc = "end" =>
          /\ Len(RunsOf("reset")) = 1
          /\ Len(RunsOf("evict")) = 1
          /\ Len(RunsOf("collect")) = Len(instances)
          /\ \A C \in DOMAIN instances :
                \E i \in DOMAIN runs : runs[i] = System("collect", C)

\* A step of an app with two plugin instances ends with an entry in the
\* registry.
C20_Witness ==
    /\ pc = "end"
    /\ Len(instances) = 2
    /\ collisions # EmptyRegistry

\* --------------------------------------------------------------------------
\* C21: every constraint built by constraint generation carries as its
\* speculative-margin bound the configured default speculative margin scaled
\* by the length unit.
C21_ConstraintCarriesScaledDefault ==
    \A i \in DOMAIN constraints :
        constraints[i].speculative_margin
            = length_unit * config.default_speculative_margin

\* --------------------------------------------------------------------------
\* The manifolds of the entry of key k that have at least one point.
ManifoldsWithPoints(k) ==
    { m \in DOMAIN collisions[k].manifolds : collisions[k].manifolds[m].points # << >> }

\* C22: every constraint in the constraint list has at least one point; right
\* after generation a pair that was not skipped has one constraint for each
\* of its manifolds that has points and none for a manifold without points,
\* wherever in the manifold list that one stands.
C22_EveryConstraintHasAPoint ==
    /\ \A i \in DOMAIN constraints : constraints[i].points # << >>
    /\ pc = "apply" =>
          \A k \in DOMAIN collisions : HandedToGeneration(k) /\ ~Skipped(k) =>
              /\ { constraints[i].manifold_index : i \in ConstraintsOf(k) }
                     = ManifoldsWithPoints(k)
              /\ Cardinality(ConstraintsOf(k)) = Cardinality(ManifoldsWithPoints(k))

\* C22 witness: generation has run over a pair whose first manifold has no
\* points and whose second has one, and the list holds the constraint of the
\* second manifold only.
C22_Witness ==
    /\ pc = "apply"
    /\ \E k \in DOMAIN collisions :
          /\ Len(collisions[k].manifolds) = 2
          /\ ManifoldsWithPoints(k) = { 2 }
          /\ Len(constraints) = 1
          /\ constraints[1].manifold_index = 2
          /\ constraints[1].points # << >>

\* --------------------------------------------------------------------------
\* A side of the pair of key k is active: not static and not sleeping.
ActiveSide(k) ==
    \E c \in { k[1], k[2] } :
        colliders[c].rb # "Static" /\ ResetEntity(c) \notin asleep

\* C23: the reset leaves every entry with during_previous_frame = TRUE, with
\* during_current_frame = FALSE when a side is active or an entity of the
\* entry does not exist and TRUE only when both sides exist and are inactive;
\* it changes nothing else in an entry and neither adds nor removes entries.
C23_ResetMarksEveryEntry ==
    [][ Taking("reset") =>
          /\ DOMAIN collisions' = DOMAIN collisions
          /\ \A k \in DOMAIN collisions :
                /\ collisions'[k].during_previous_frame
                /\ (ActiveSide(k) \/ EntityMissing(k)) =>
                      ~collisions'[k].during_current_frame
                /\ collisions'[k].during_current_frame =>
                      ~EntityMissing(k) /\ ~ActiveSide(k)
                /\ collisions'[k] =
                      [ collisions[k] EXCEPT
                          !.during_previous_frame = collisions'[k].during_previous_frame,
                          !.during_current_frame  = collisions'[k].during_current_frame ]
      ]_vars

\* --------------------------------------------------------------------------
\* C24: generation leaves no constraint for a pair unless both colliders
\* exist, both have a rigid body that exists, and at least one of the two
\* bodies is dynamic; a kinematic body against a static or kinematic one gets
\* none.
C24_ConstraintNeedsDynamicBody ==
    [][ Taking("generate") =>
          \A k \in AllKeys : ConstraintsOf(k)' # {} =>
              /\ k[1] \in alive /\ k[2] \in alive
              /\ HasLiveBody(k[1]) /\ HasLiveBody(k[2])
              /\ \E c \in { k[1], k[2] } : colliders[c].rb = "Dynamic"
      ]_vars

\* C24 witness: generation has run over the fresh entry of an awake kinematic
\* body against a static or kinematic one, neither side a sensor, and the
\* list has no constraint for the pair.
C24_Witness ==
    /\ pc = "apply"
    /\ \E k \in DOMAIN collisions :
          /\ collisions[k].during_current_frame
          /\ collisions[k].manifolds # << >>
          /\ PairHasBodies(k)
          /\ ~Skipped(k)
          /\ \E c \in { k[1], k[2] } : colliders[c].rb = "Kinematic"
          /\ \A c \in { k[1], k[2] } : colliders[c].rb \in { "Kinematic", "Static" }
          /\ ConstraintsOf(k) = {}

\* --------------------------------------------------------------------------
\* Collider c has no speculative margin of its own and none from its body.
NoOverride(c) ==
    /\ margins[c].speculative_margin = None
    /\ ~(/\ BodyResolves(c)
         /\ colliders[c].attach = "parent"
         /\ margins[c].rb_speculative_margin # None)

\* The other side of a call of the oracle.
OtherSide(call, c) == IF c = call.entity1 THEN call.entity2 ELSE call.entity1

\* C25: with the default speculative margin configured to zero, a side
\* without an override adds nothing to the effective margin of a pair, which
\* is then at most what the other side moves in the step; when neither side
\* has an override the oracle gets contact_tolerance + collision_margin_sum as
\* its max distance, whatever the velocities.
C25_ZeroDefaultDisablesPrediction ==
    config.default_speculative_margin = 0 =>
        \A i \in DOMAIN oracle_calls :
            LET call == oracle_calls[i]
                sum  == CollisionMarginOfSide(call.entity1)
                        + CollisionMarginOfSide(call.entity2)
            IN  /\ \A c \in { call.entity1, call.entity2 } : NoOverride(c) =>
                      LET moved == delta_secs * Abs(LinVel(OtherSide(call, c)))
                      IN  /\ Effective(call) <= moved
                          /\ call.max_distance
                               <= Max(moved, ContactTolerance(call)) + sum
                /\ (NoOverride(call.entity1) /\ NoOverride(call.entity2)) =>
                      /\ Effective(call) = 0
                      /\ call.max_distance = ContactTolerance(call) + sum

\* C25 witness: the oracle is called for a pair without any speculative-margin
\* override whose bodies move against each other by more than the contact
\* tolerance in the step, with a collision margin on a side.
C25_Witness ==
    /\ config.default_speculative_margin = 0
    /\ \E i \in DOMAIN oracle_calls :
          LET call == oracle_calls[i]
          IN  /\ NoOverride(call.entity1) /\ NoOverride(call.entity2)
              /\ RelativeDisplacement(call.entity1, call.entity2) > ContactTolerance(call)
              /\ CollisionMarginSum(call.entity1, call.entity2) > 0
              /\ call.max_distance
                    = ContactTolerance(call)
                      + CollisionMarginSum(call.entity1, call.entity2)

\* --------------------------------------------------------------------------
\* The hook is called for the pair of key k in this step, returns true and
\* leaves the manifold list empty.
Emptied(k) ==
    /\ k \in KeysOf(broad_collision_pairs)
    /\ k[1] \in alive /\ k[2] \in alive
    /\ geometry[k].count > 0
    /\ hook[k] = "clear"

\* C26: every Contacts that collection writes to the registry has at least
\* one manifold and during_current_frame = TRUE, so no entry of the registry
\* is ever without manifolds; a pair whose manifold list the hook emptied
\* while returning true is discarded: collection leaves the registry as it
\* was for the pair.
C26_CommittedHasManifolds ==
    [][ /\ \A k \in DOMAIN collisions : collisions[k].manifolds # << >>
        /\ pc = "collect" =>
              /\ \A k \in DOMAIN collisions' :
                    (k \notin DOMAIN collisions \/ collisions'[k] # collisions[k]) =>
                        /\ collisions'[k].manifolds # << >>
                        /\ collisions'[k].during_current_frame
              /\ \A k \in AllKeys : Emptied(k) =>
                    IF k \in DOMAIN collisions
                    THEN k \in DOMAIN collisions' /\ collisions'[k] = collisions[k]
                    ELSE k \notin DOMAIN collisions'
      ]_vars

\* C26 witness: collection has called the hook for a pair that has an entry
\* of an earlier step; the hook returned true and emptied the list, and the
\* entry is as the reset left it.
C26_Witness ==
    /\ pc = "post"
    /\ \E k \in AllKeys :
          /\ Emptied(k)
          /\ k \in HookCalledFor
          /\ k \in DOMAIN collisions
          /\ ~collisions[k].during_current_frame
          /\ collisions[k].manifolds # << >>

BeginState(reg, k) ==
    /\ k \in DOMAIN reg
    /\ reg[k].during_current_frame
    /\ ~reg[k].during_previous_frame

\* C28: the Contacts collection commits for a pair has during_previous_frame
\* = TRUE exactly when the registry held an entry of the pair when the step
\* began; an entry comes to show the begin state (during_current_frame and
\* not during_previous_frame) only by being created by collection for a pair
\* the registry had no entry of, and no entry shows it after a reset.
C28_BeginOnlyWhenCreated ==
    [][ /\ Taking("collect") =>
              \A k \in DOMAIN collisions' : Yields(k) =>
                  (collisions'[k].during_previous_frame <=> k \in DOMAIN collisions)
        /\ \A k \in AllKeys :
              (BeginState(collisions', k) /\ ~BeginState(collisions, k)) =>
                  Taking("collect") /\ k \notin DOMAIN collisions
        /\ Taking("reset") => \A k \in AllKeys : ~BeginState(collisions', k)
      ]_vars

\* C28 witness: collection has committed again the entry of an active pair
\* that was in the registry when the step began: it is current and has
\* during_previous_frame = TRUE.
C28_Witness ==
    /\ pc = "post"
    /\ \E k \in DOMAIN collisions :
          /\ Yields(k)
          /\ ActivePair(k)
          /\ collisions[k].during_current_frame
          /\ collisions[k].during_previous_frame

\* --------------------------------------------------------------------------
\* C29: every constraint generated in a step comes from a registry entry
\* whose during_current_frame is TRUE; an entry that collection did not
\* commit in the step and the reset did not keep current contributes no
\* constraint.
C29_ConstraintsFromCurrentEntriesOnly ==
    [][ Taking("generate") =>
          \A k \in AllKeys : ConstraintsOf(k)' # {} =>
              k \in DOMAIN collisions /\ collisions[k].during_current_frame
      ]_vars

\* --------------------------------------------------------------------------
\* No unordered pair is listed more than once in the candidate list pairs.
NoPairTwice(pairs) ==
    \A i \in DOMAIN pairs : \A j \in DOMAIN pairs :
        i # j => Canon(pairs[i][1], pairs[i][2]) # Canon(pairs[j][1], pairs[j][2])

\* C30: for a candidate list without a repeated unordered pair, however
\* par_splat_map cuts it into chunks, the registry the parallel collection
\* leaves when its last chunk is merged is the registry the sequential loop
\* (handle a pair, insert, next pair) makes of the registry collection
\* started with: the same entries, each with the same flags and manifolds.
C30_ParallelEqualsSequential ==
    [][ (pc = "map" /\ pc' # "map" /\ NoPairTwice(broad_collision_pairs)) =>
          collisions' = UpdateSequential(1, par.start, broad_collision_pairs, 1)
      ]_vars

\* C30 witness: a parallel collection over two different pairs, one of which
\* had an entry, cut into two chunks that each gave a contact, has merged
\* both chunks; the registry is what the sequential loop gives.
C30_Witness ==
    /\ pc = "map"
    /\ Len(par.chunks) = 2
    /\ par.merged = 2
    /\ NoPairTwice(broad_collision_pairs)
    /\ par.start # EmptyRegistry
    /\ \E k \in DOMAIN par.start : k \in KeysOf(broad_collision_pairs)
    /\ \A ch \in DOMAIN par.chunks : par.new_collisions[ch] # << >>
    /\ collisions = UpdateSequential(1, par.start, broad_collision_pairs, 1)

\* --------------------------------------------------------------------------
\* C31: in every step the default speculative margin and the contact
\* tolerance collection resolves the margins with are the configuration's
\* values of that step times the length unit of that step, whatever changes
\* of the configuration and of the length unit went before; the oracle's max
\* distance for a pair at rest without margin components is then the scaled
\* contact tolerance.
C31_CachedMarginsAreCurrent ==
    [][ Taking("collect") =>
          /\ \A C \in DOMAIN cached' :
                /\ cached'[C].default_speculative_margin
                      = length_unit * config.default_speculative_margin
                /\ cached'[C].contact_tolerance
                      = length_unit * config.contact_tolerance
          /\ \A i \in DOMAIN oracle_calls' :
                oracle_calls'[i].max_distance = length_unit * config.contact_tolerance
      ]_vars

====
